---- MODULE Spec2Model ----
(***************************************************************************)
(* Model of the ingestion pipeline of competitor-intelligence-radar        *)
(* (lib/ingestion.ts): the store (RawItem, StoryCluster, StoryItemLink)    *)
(* and dedupeAndClusterJob, one action per awaited store operation;        *)
(* summarizeAndAnalyzeJob and alertsJob with their tables; the job runners *)
(* (runAllJobs, runJobAsync, processJob) with the JobRunLog; the analyzer's *)
(* verification status, confidence score and text classifiers (lib/ai.ts). *)
(* Each part has its own specification over the same variables.            *)
(*                                                                         *)
(* Strings are sequences of word tokens; String.includes / Prisma          *)
(* `contains` is contiguous-subsequence containment, toLowerCase maps each *)
(* token to its lower-case form.                                           *)
(* The regular expressions of lib/ai.ts are matched on the characters of   *)
(* the words, joined by blanks.                                            *)
(***************************************************************************)
EXTENDS Integers, Sequences, FiniteSets, TLC

\* ------------------------------------------------------------------ bounds
MaxItems == 3      \* RawItem rows that ever enter the store
MaxTime == 2       \* clock ticks (one tick = 24 hours)
MaxAborts == 1     \* store operations that throw
MaxSources == 4    \* items of the largest cluster handed to the analyzer
MaxRuns == 2       \* job runs started, one JobRunLog row each
MaxCount == 1      \* the largest count a stage returns
MaxSummaries == 2  \* StorySummary rows alertsJob ever sees
MaxRules == 2      \* UserAlert rows
MaxWords == 3      \* words of an analysed text

\* -------------------------------------------------------- program constants
BatchLimit == 2    \* `take: 100` of the findMany, scaled down with MaxItems
DayTicks == 1      \* 24 * 60 * 60 * 1000 ms, in clock ticks
SummaryBatchLimit == 2  \* `take: 50` of summarizeAndAnalyzeJob, scaled down
HoursPerTick == 24 \* one clock tick, in hours
AlertWindowHours == 6   \* 6 * 60 * 60 * 1000 ms of alertsJob, in hours

Runners == {1, 2}  \* trigger route, cron route / scheduler

\* ---------------------------------------------------------------- strings
ToLowerTok(t) ==
    CASE t = "Acme" -> "acme"
      [] t = "Bolt" -> "bolt"
      [] t = "Updates" -> "updates"
      [] t = "AI" -> "ai"
      [] OTHER -> t

toLowerCase(s) == [i \in 1..Len(s) |-> ToLowerTok(s[i])]

includes(s, sub) ==
    \E i \in 0..(Len(s) - Len(sub)) : SubSeq(s, i + 1, i + Len(sub)) = sub

\* ----------------------------------------------------------- configuration
\* competitors.yaml as loadCompetitorsConfig returns it: ordered, each with a
\* name, keywords and verticals.
competitors ==
    << [name |-> <<"Acme">>, keywords |-> << <<"kw">> >>,
        verticals |-> <<"support", "sales">>],
       [name |-> <<"Bolt">>, keywords |-> << >>, verticals |-> <<"sales">>] >>

Unknown == <<"unknown">>

\* ------------------------------------------------------------------ inputs
\* The RawItem rows that can enter the store: title ("" / null is <<>>),
\* rawText (nullable).
ItemShapes ==
    { [title |-> <<"Acme", "Bolt">>, hasText |-> TRUE,  rawText |-> <<"news">>],
      [title |-> <<"Bolt">>,         hasText |-> TRUE,  rawText |-> <<"news">>],
      [title |-> <<"news">>,         hasText |-> TRUE,  rawText |-> <<"kw">>],
      [title |-> << >>,              hasText |-> TRUE,  rawText |-> <<"news">>],
      [title |-> <<"acme">>,         hasText |-> FALSE, rawText |-> << >>] }

\* The rows used where runs overlap: one whose cluster is found again by its
\* title, one whose cluster is not.
OverlapShapes ==
    { [title |-> << >>,      hasText |-> TRUE, rawText |-> <<"news">>],
      [title |-> <<"news">>, hasText |-> TRUE, rawText |-> <<"kw">>] }

VARIABLES
    rawItems,          \* RawItem table: id -> [title, hasText, rawText, processed]
    storyClusters,     \* StoryCluster table: id -> [canonicalTitle, createdAt, updatedAt]
    storyItemLinks,    \* StoryItemLink table: id -> [clusterId, rawItemId]
    clock,             \* Date.now(), in ticks
    aborts,            \* store operations that have thrown
    pc,                \* per runner: the awaited operation it is at
    unprocessedItems,  \* per runner: the batch findMany returned
    competitorGroups,  \* per runner: the Map, in insertion order
    gi,                \* per runner: index of the group being handled
    ii,                \* per runner: index of the item being linked
    clusterId,         \* per runner
    clustersCreated,   \* per runner
    itemsLinked,       \* per runner
    startClusters,     \* per runner: number of StoryCluster rows when the run began
    startLinks,        \* per runner: number of StoryItemLink rows when the run began
    startUnprocessed,  \* per runner: number of unprocessed rows with text when the run began
    startClock,        \* per runner: the time when the run began
    settled            \* the last event was a run returning normally

\* The analyzer (lib/ai.ts), called on the items of one cluster.
VARIABLES
    anItems,           \* items: the source { trustTier, name } of each
    anHasAI,           \* hasAIClaims
    anStatus,          \* verificationStatus
    anScore,           \* confidenceScore
    anPc               \* "input", "status" (status determined) or "scored"

analysisVars == <<anItems, anHasAI, anStatus, anScore, anPc>>

\* The job runners (runAllJobs, runJobAsync, processJob) and their log.
VARIABLES
    jobRunLogs,        \* JobRunLog table: [jobName, status, itemsProcessed, errorMessage]
    runs,              \* runs[id]: the run that created log id, see StartRun
    sourcesOk,         \* sources.yaml passes SourcesConfigSchema
    competitorsOk      \* competitors.yaml passes CompetitorsConfigSchema

pipelineVars == <<jobRunLogs, runs, sourcesOk, competitorsOk>>

\* summarizeAndAnalyzeJob.
VARIABLES
    storySummaries,            \* StorySummary table, see SummaryRow
    sumPc,                     \* "idle", "create" (a cluster is being analysed) or "return"
    clustersWithoutSummaries,  \* the rows findMany returned: [id, items]
    sumIdx,                    \* index of the cluster the loop is at
    summariesCreated

summaryVars ==
    <<storySummaries, sumPc, clustersWithoutSummaries, sumIdx, summariesCreated>>

\* alertsJob.
VARIABLES
    userAlerts,        \* UserAlert table: the alert rules, see AllRules
    notifications,     \* Notification table: [userId, storyId]
    alPc,              \* "idle", "pair", "create" or "return"
    recentSummaries,   \* the StorySummary ids the first findMany returned
    alerts,            \* the UserAlert ids the second findMany returned
    si,                \* index into recentSummaries
    ai,                \* index into alerts
    alertsSent,
    alStart,           \* number of StorySummary rows when the run began
    alertedUpTo        \* number of StorySummary rows when the run before began

alertVars ==
    <<userAlerts, notifications, alPc, recentSummaries, alerts, si, ai, alertsSent,
      alStart, alertedUpTo>>

\* The text analysis of analyzeCluster.
VARIABLES
    txText,            \* combinedText, a sequence of words
    txPc,              \* "idle", "input", "analyzed" or "called"
    txCompetitor,      \* detectCompetitor's result: an index, 0 for null
    txCapabilities,    \* aiCapabilities, an array
    txPriority,
    txActions          \* recommendedActions, an array

textVars ==
    <<txText, txPc, txCompetitor, txCapabilities, txPriority, txActions>>

\* What dedupeAndClusterJob and the RawItem arrivals leave alone.
beyondClustering ==
    <<analysisVars, pipelineVars, summaryVars, alertVars, textVars>>

store == <<rawItems, storyClusters, storyItemLinks>>
locals == <<unprocessedItems, competitorGroups, gi, ii, clusterId,
            clustersCreated, itemsLinked, startClusters, startLinks,
            startUnprocessed, startClock>>
vars == <<rawItems, storyClusters, storyItemLinks, clock, aborts, pc,
          unprocessedItems, competitorGroups, gi, ii, clusterId,
          clustersCreated, itemsLinked, startClusters, startLinks,
          startUnprocessed, startClock, settled, beyondClustering>>

clusteringVars == <<store, clock, aborts, pc, locals, settled>>

\* What the analyzer leaves alone, and what the job runners' wrapper does.
beyondAnalysis ==
    <<clusteringVars, pipelineVars, summaryVars, alertVars, textVars>>

beyondPipeline ==
    <<clusteringVars, analysisVars, summaryVars, alertVars, textVars>>

\* What summarizeAndAnalyzeJob leaves alone, and what alertsJob does.
beyondSummaries ==
    <<clusteringVars, analysisVars, pipelineVars, alertVars, textVars>>

beyondAlerts ==
    <<clusteringVars, analysisVars, pipelineVars, sumPc, clustersWithoutSummaries,
      sumIdx, summariesCreated, textVars>>

\* What the text analysis leaves alone.
beyondText ==
    <<clusteringVars, analysisVars, pipelineVars, summaryVars, userAlerts,
      notifications, alPc, recentSummaries, alerts, si, ai, alertsSent,
      alStart, alertedUpTo>>

\* ----------------------------------------------------------------- helpers
Range(s) == {s[i] : i \in 1..Len(s)}

Min(S) == CHOOSE x \in S : \A y \in S : x <= y

\* Injective sequences of length n over S: the orders a query may return.
Arrangements(S, n) ==
    {s \in [1..n -> S] : \A i, j \in 1..n : i # j => s[i] # s[j]}

UnprocessedAnyFlag ==
    {i \in 1..Len(rawItems) : rawItems[i].hasText}

\* where: { processed: false, rawText: { not: null } }
Unprocessed ==
    {i \in 1..Len(rawItems) : ~rawItems[i].processed /\ rawItems[i].hasText}

\* The competitor key of lines 311-322: first configured competitor whose
\* lower-cased name or keyword occurs in the lower-cased title + " " + text.
CompetitorKey(item) ==
    LET text == toLowerCase(item.title \o (IF item.hasText THEN item.rawText ELSE << >>))
        hit(comp) ==
            \/ includes(text, toLowerCase(comp.name))
            \/ \E k \in 1..Len(comp.keywords) : includes(text, toLowerCase(comp.keywords[k]))
        matching == {c \in 1..Len(competitors) : hit(competitors[c])}
    IN  IF matching = {} THEN Unknown ELSE competitors[Min(matching)].name

KeyOf(i) == CompetitorKey(rawItems[i])

RECURSIVE GroupItemsDropUnknown(_, _)
GroupItemsDropUnknown(batch, groups) ==
    IF batch = << >> THEN groups
    ELSE LET i == Head(batch)
             k == KeyOf(i)
             at == {g \in 1..Len(groups) : groups[g].key = k}
         IN  IF k = Unknown
             THEN GroupItemsDropUnknown(Tail(batch), groups)
             ELSE IF at = {}
             THEN GroupItemsDropUnknown(Tail(batch),
                     Append(groups, [key |-> k, items |-> <<i>>]))
             ELSE GroupItemsDropUnknown(Tail(batch),
                     [groups EXCEPT ![Min(at)].items = Append(@, i)])

\* The Map built by lines 308-328, as a sequence in insertion order.
RECURSIVE GroupItems(_, _)
GroupItems(batch, groups) ==
    IF batch = << >> THEN groups
    ELSE LET i == Head(batch)
             k == KeyOf(i)
             at == {g \in 1..Len(groups) : groups[g].key = k}
         IN  IF at = {}
             THEN GroupItems(Tail(batch), Append(groups, [key |-> k, items |-> <<i>>]))
             ELSE GroupItems(Tail(batch),
                     [groups EXCEPT ![Min(at)].items = Append(@, i)])

\* items[0].title || `${competitorName} Updates - ${date}`
CanonicalTitle(group) ==
    IF rawItems[group.items[1]].title # << >>
    THEN rawItems[group.items[1]].title
    ELSE group.key \o <<"Updates", "-", "date">>

RecentClustersByUpdate(competitorName) ==
    {c \in 1..Len(storyClusters) :
        /\ includes(storyClusters[c].canonicalTitle, competitorName)
        /\ storyClusters[c].updatedAt >= clock - DayTicks}

\* where: { canonicalTitle: { contains }, createdAt: { gte: now - 24h } }
RecentClusters(competitorName) ==
    {c \in 1..Len(storyClusters) :
        /\ includes(storyClusters[c].canonicalTitle, competitorName)
        /\ storyClusters[c].createdAt >= clock - DayTicks}

\* where: { clusterId, rawItemId }
LinksOf(c, i) ==
    {l \in 1..Len(storyItemLinks) :
        storyItemLinks[l].clusterId = c /\ storyItemLinks[l].rawItemId = i}

CurGroup(r) == competitorGroups[r][gi[r]]
CurItem(r) == CurGroup(r).items[ii[r]]

\* -------------------------------------------------------------------- Init
ClusteringInit ==
    /\ rawItems = << >>
    /\ storyClusters = << >>
    /\ storyItemLinks = << >>
    /\ clock = 0
    /\ aborts = 0
    /\ pc = [r \in Runners |-> "idle"]
    /\ unprocessedItems = [r \in Runners |-> << >>]
    /\ competitorGroups = [r \in Runners |-> << >>]
    /\ gi = [r \in Runners |-> 1]
    /\ ii = [r \in Runners |-> 1]
    /\ clusterId = [r \in Runners |-> 0]
    /\ clustersCreated = [r \in Runners |-> 0]
    /\ itemsLinked = [r \in Runners |-> 0]
    /\ startClusters = [r \in Runners |-> 0]
    /\ startLinks = [r \in Runners |-> 0]
    /\ startUnprocessed = [r \in Runners |-> 0]
    /\ startClock = [r \in Runners |-> 0]
    /\ settled = FALSE

\* No analysis under way.
AnalysisIdle ==
    /\ anItems = << >>
    /\ anHasAI = FALSE
    /\ anStatus = "none"
    /\ anScore = 0
    /\ anPc = "idle"

\* No job runner started yet; both configuration files are well-formed.
PipelineIdle ==
    /\ jobRunLogs = << >>
    /\ runs = << >>
    /\ sourcesOk = TRUE
    /\ competitorsOk = TRUE

\* No summary yet, summarizeAndAnalyzeJob not running.
SummariesIdle ==
    /\ storySummaries = << >>
    /\ sumPc = "idle"
    /\ clustersWithoutSummaries = << >>
    /\ sumIdx = 1
    /\ summariesCreated = 0

\* alertsJob not running, nothing notified.
AlertsIdle ==
    /\ notifications = << >>
    /\ alPc = "idle"
    /\ recentSummaries = << >>
    /\ alerts = << >>
    /\ si = 1
    /\ ai = 1
    /\ alertsSent = 0
    /\ alStart = 0
    /\ alertedUpTo = 0

\* No text under analysis.
TextIdle ==
    /\ txText = << >>
    /\ txPc = "idle"
    /\ txCompetitor = 0
    /\ txCapabilities = << >>
    /\ txPriority = "none"
    /\ txActions = << >>

Init ==
    /\ ClusteringInit
    /\ AnalysisIdle
    /\ PipelineIdle
    /\ SummariesIdle
    /\ userAlerts = << >>
    /\ AlertsIdle
    /\ TextIdle

\* The run of runner r is over: its locals are gone.
DropLocals(r) ==
    /\ unprocessedItems' = [unprocessedItems EXCEPT ![r] = << >>]
    /\ competitorGroups' = [competitorGroups EXCEPT ![r] = << >>]
    /\ gi' = [gi EXCEPT ![r] = 1]
    /\ ii' = [ii EXCEPT ![r] = 1]
    /\ clusterId' = [clusterId EXCEPT ![r] = 0]
    /\ clustersCreated' = [clustersCreated EXCEPT ![r] = 0]
    /\ itemsLinked' = [itemsLinked EXCEPT ![r] = 0]
    /\ startClusters' = [startClusters EXCEPT ![r] = 0]
    /\ startLinks' = [startLinks EXCEPT ![r] = 0]
    /\ startUnprocessed' = [startUnprocessed EXCEPT ![r] = 0]
    /\ startClock' = [startClock EXCEPT ![r] = 0]

\* ----------------------------------------------------------------- actions
\* A RawItem row enters the store (prisma.rawItem.create of fetchSourcesJob).
\* A run reads rawItems only in its first step, so a row that arrives during a
\* run is a row that arrives right after it: arrivals are taken between runs.
CreateRawItemOf(shapes) ==
    /\ Len(rawItems) < MaxItems
    /\ \A r \in Runners : pc[r] = "idle"
    /\ \E s \in shapes :
          rawItems' = Append(rawItems,
              [title |-> s.title, hasText |-> s.hasText, rawText |-> s.rawText,
               processed |-> FALSE])
    /\ settled' = FALSE
    /\ UNCHANGED <<storyClusters, storyItemLinks, clock, aborts, pc, locals>>
    /\ UNCHANGED beyondClustering

CreateRawItem == CreateRawItemOf(ItemShapes)

\* Wall-clock time passes.
Tick ==
    /\ clock < MaxTime
    /\ clock' = clock + 1
    /\ UNCHANGED <<store, aborts, pc, locals, settled>>
    /\ UNCHANGED beyondClustering

TakeAll(n) == n

\* take: 100 -- the number of rows returned when n rows match.
Take(n) == IF n < BatchLimit THEN n ELSE BatchLimit

\* dedupeAndClusterJob, lines 292-328: findMany (take: 100), then the
\* synchronous grouping. No orderBy: any rows, in any order. With no group
\* the loop of line 331 is over at once.
StartJob(r) ==
    /\ pc[r] = "idle"
    /\ \E batch \in Arrangements(Unprocessed, Take(Cardinality(Unprocessed))) :
          /\ unprocessedItems' = [unprocessedItems EXCEPT ![r] = batch]
          /\ competitorGroups' = [competitorGroups EXCEPT ![r] = GroupItems(batch, << >>)]
          /\ pc' = [pc EXCEPT ![r] =
                IF GroupItems(batch, << >>) = << >> THEN "return" ELSE "findCluster"]
    /\ gi' = [gi EXCEPT ![r] = 1]
    /\ ii' = [ii EXCEPT ![r] = 1]
    /\ clustersCreated' = [clustersCreated EXCEPT ![r] = 0]
    /\ itemsLinked' = [itemsLinked EXCEPT ![r] = 0]
    /\ startClusters' = [startClusters EXCEPT ![r] = Len(storyClusters)]
    /\ startLinks' = [startLinks EXCEPT ![r] = Len(storyItemLinks)]
    /\ startUnprocessed' = [startUnprocessed EXCEPT ![r] = Cardinality(Unprocessed)]
    /\ startClock' = [startClock EXCEPT ![r] = clock]
    /\ UNCHANGED <<store, clock, aborts, clusterId, settled>>
    /\ UNCHANGED beyondClustering

\* The same, started only when no other run is in progress.
StartJobAlone(r) ==
    /\ \A q \in Runners : pc[q] = "idle"
    /\ StartJob(r)

\* lines 339-353: storyCluster.findFirst. No orderBy: any matching row.
FindCluster(r) ==
    /\ pc[r] = "findCluster"
    /\ LET found == RecentClusters(CurGroup(r).key)
       IN  IF found = {}
           THEN /\ pc' = [pc EXCEPT ![r] = "createCluster"]
                /\ UNCHANGED clusterId
           ELSE \E c \in found :
                   /\ clusterId' = [clusterId EXCEPT ![r] = c]
                   /\ pc' = [pc EXCEPT ![r] = "updateCluster"]
    /\ UNCHANGED <<store, clock, aborts, unprocessedItems, competitorGroups, gi, ii,
                   clustersCreated, itemsLinked, startClusters, startLinks,
                   startUnprocessed,
                   startClock, settled>>
    /\ UNCHANGED beyondClustering

UpdateClusterCounting(r) ==
    /\ pc[r] = "updateCluster"
    /\ storyClusters' = [storyClusters EXCEPT ![clusterId[r]].updatedAt = clock]
    /\ clustersCreated' = [clustersCreated EXCEPT ![r] = @ + 1]
    /\ pc' = [pc EXCEPT ![r] = "findLink"]
    /\ UNCHANGED <<rawItems, storyItemLinks, clock, aborts, unprocessedItems,
                   competitorGroups, gi, ii, clusterId, itemsLinked, startClusters,
                   startLinks, startUnprocessed,
                   startClock, settled>>
    /\ UNCHANGED beyondClustering

\* lines 354-357: storyCluster.update({ updatedAt: new Date() })
UpdateCluster(r) ==
    /\ pc[r] = "updateCluster"
    /\ storyClusters' = [storyClusters EXCEPT ![clusterId[r]].updatedAt = clock]
    /\ pc' = [pc EXCEPT ![r] = "findLink"]
    /\ UNCHANGED <<rawItems, storyItemLinks, clock, aborts, locals, settled>>
    /\ UNCHANGED beyondClustering

\* lines 359-365: storyCluster.create, clustersCreated++
CreateCluster(r) ==
    /\ pc[r] = "createCluster"
    /\ storyClusters' = Append(storyClusters,
          [canonicalTitle |-> CanonicalTitle(CurGroup(r)),
           createdAt |-> clock, updatedAt |-> clock])
    /\ clusterId' = [clusterId EXCEPT ![r] = Len(storyClusters) + 1]
    /\ clustersCreated' = [clustersCreated EXCEPT ![r] = @ + 1]
    /\ pc' = [pc EXCEPT ![r] = "findLink"]
    /\ UNCHANGED <<rawItems, storyItemLinks, clock, aborts, unprocessedItems,
                   competitorGroups, gi, ii, itemsLinked, startClusters, startLinks,
                   startUnprocessed,
                   startClock, settled>>
    /\ UNCHANGED beyondClustering

\* lines 371-378: storyItemLink.findFirst({ clusterId, rawItemId }) and the
\* test of its result.
LinkExistsNever(c, i) == FALSE

LinkExists(c, i) == LinksOf(c, i) # {}

FindLink(r) ==
    /\ pc[r] = "findLink"
    /\ pc' = [pc EXCEPT ![r] =
                IF LinkExists(clusterId[r], CurItem(r)) THEN "markProcessed" ELSE "createLink"]
    /\ UNCHANGED <<store, clock, aborts, locals, settled>>
    /\ UNCHANGED beyondClustering

\* lines 379-385: storyItemLink.create, itemsLinked++
CreateLink(r) ==
    /\ pc[r] = "createLink"
    /\ storyItemLinks' = Append(storyItemLinks,
          [clusterId |-> clusterId[r], rawItemId |-> CurItem(r)])
    /\ itemsLinked' = [itemsLinked EXCEPT ![r] = @ + 1]
    /\ pc' = [pc EXCEPT ![r] = "markProcessed"]
    /\ UNCHANGED <<rawItems, storyClusters, clock, aborts, unprocessedItems,
                   competitorGroups, gi, ii, clusterId, clustersCreated,
                   startClusters, startLinks, startUnprocessed,
                   startClock, settled>>
    /\ UNCHANGED beyondClustering

MarkedOnlyIfNewLink(r) ==
    IF /\ Len(storyItemLinks) > startLinks[r]
       /\ storyItemLinks[Len(storyItemLinks)] =
             [clusterId |-> clusterId[r], rawItemId |-> CurItem(r)]
    THEN [rawItems EXCEPT ![CurItem(r)].processed = TRUE]
    ELSE rawItems

\* lines 389-392: the RawItem table after rawItem.update({ processed: true })
Marked(r) == [rawItems EXCEPT ![CurItem(r)].processed = TRUE]

\* lines 388-394: rawItem.update({ processed: true }), then the next item,
\* the next group, or the end of the loops.
MarkProcessed(r) ==
    /\ pc[r] = "markProcessed"
    /\ rawItems' = Marked(r)
    /\ IF ii[r] < Len(CurGroup(r).items)
       THEN /\ ii' = [ii EXCEPT ![r] = @ + 1]
            /\ pc' = [pc EXCEPT ![r] = "findLink"]
            /\ UNCHANGED gi
       ELSE IF gi[r] < Len(competitorGroups[r])
       THEN /\ gi' = [gi EXCEPT ![r] = @ + 1]
            /\ ii' = [ii EXCEPT ![r] = 1]
            /\ pc' = [pc EXCEPT ![r] = "findCluster"]
       ELSE /\ pc' = [pc EXCEPT ![r] = "return"]
            /\ UNCHANGED <<gi, ii>>
    /\ UNCHANGED <<storyClusters, storyItemLinks, clock, aborts, unprocessedItems,
                   competitorGroups, clusterId, clustersCreated, itemsLinked,
                   startClusters, startLinks, startUnprocessed,
                   startClock, settled>>
    /\ UNCHANGED beyondClustering

\* line 396: return { clustersCreated, itemsLinked }
ReturnJob(r) ==
    /\ pc[r] = "return"
    /\ pc' = [pc EXCEPT ![r] = "idle"]
    /\ DropLocals(r)
    /\ settled' = TRUE
    /\ UNCHANGED <<store, clock, aborts>>
    /\ UNCHANGED beyondClustering

\* The awaited store operation the run is at throws: the run ends there,
\* without the operation's effect.
StoreThrowsWithin(r, budget) ==
    /\ pc[r] \notin {"idle", "return"}
    /\ aborts < budget
    /\ aborts' = aborts + 1
    /\ pc' = [pc EXCEPT ![r] = "idle"]
    /\ DropLocals(r)
    /\ settled' = FALSE
    /\ UNCHANGED <<store, clock>>
    /\ UNCHANGED beyondClustering

\* The same, as long as fewer than MaxAborts operations have thrown.
StoreThrows(r) == StoreThrowsWithin(r, MaxAborts)

JobStep(r) ==
    \/ FindCluster(r)
    \/ UpdateCluster(r)
    \/ CreateCluster(r)
    \/ FindLink(r)
    \/ CreateLink(r)
    \/ MarkProcessed(r)
    \/ ReturnJob(r)

\* Runs that do not overlap. Which caller starts a run makes no difference to
\* it, so one runner makes them all.
Next ==
    \/ CreateRawItem
    \/ Tick
    \/ StartJobAlone(1)
    \/ JobStep(1)
    \/ StoreThrows(1)

Spec == Init /\ [][Next]_vars

\* Runs that overlap: the trigger route (POST), the cron route (GET) and the
\* scheduler start runAllJobs / runJobAsync without waiting for a run in
\* progress.
NextOverlap ==
    \/ CreateRawItemOf(OverlapShapes)
    \/ \E r \in Runners : StartJob(r)
    \/ \E r \in Runners : JobStep(r)

SpecOverlap == Init /\ [][NextOverlap]_vars

\* Repeated invocation, one run after the other, no store operation throwing:
\* the scheduler's setInterval starts a run again and again, and a started
\* run goes on to its end.
NextDrain ==
    \/ CreateRawItem
    \/ StartJobAlone(1)
    \/ JobStep(1)

SpecDrain ==
    Init /\ [][NextDrain]_vars /\ WF_vars(StartJobAlone(1)) /\ WF_vars(JobStep(1))

\* ---------------------------------------------------------------- analyzer
\* The sources an item can come from: every trust tier, two source names.
TrustTiers == {"HIGH", "MEDIUM", "LOW"}

SourceNames == {"blog", "press"}

ItemSources == [trustTier : TrustTiers, name : SourceNames]

\* The item lists of a cluster that is analysed: one item or more.
ItemLists == UNION {[1..n -> ItemSources] : n \in 1..MaxSources}

VerificationStatuses == {"VERIFIED", "CLAIM_UNVERIFIED"}

TrustCount(items, tier) ==
    Cardinality({i \in 1..Len(items) : items[i].trustTier = tier})

\* Math.round of a score kept in halves (h = 2 * score): a half rounds up.
MathRoundHalfDown(h) == h \div 2

MathRound(h) == (h + 1) \div 2

ClampNoCeiling(n) == IF n < 1 THEN 1 ELSE n

\* Math.min(5, Math.max(1, n))
Clamp(n) == IF n < 1 THEN 1 ELSE IF n > 5 THEN 5 ELSE n

\* The score before rounding, in halves: 3 is 6, 0.5 is 1.
RawScore(items, verificationStatus) ==
    LET highTrustCount == TrustCount(items, "HIGH")
        mediumTrustCount == TrustCount(items, "MEDIUM")
    IN  6 + (IF highTrustCount >= 2 THEN 2 ELSE 0)
          + (IF highTrustCount >= 1 THEN 1 ELSE 0)
          + (IF mediumTrustCount >= 2 THEN 1 ELSE 0)
          + (IF verificationStatus = "VERIFIED" THEN 2 ELSE 0)
          - (IF verificationStatus = "CLAIM_UNVERIFIED" THEN 1 ELSE 0)
          + (IF Len(items) >= 3 THEN 1 ELSE 0)

calculateConfidence(items, verificationStatus) ==
    Clamp(MathRound(RawScore(items, verificationStatus)))

determineVerificationStatusByItemCount(items, hasAIClaims) ==
    IF ~hasAIClaims \/ Len(items) >= 2 THEN "VERIFIED" ELSE "CLAIM_UNVERIFIED"

determineVerificationStatus(items, hasAIClaims) ==
    IF ~hasAIClaims
    THEN "VERIFIED"
    ELSE LET hasOfficialSource == \E i \in 1..Len(items) : items[i].trustTier = "HIGH"
             uniqueSources == Cardinality({items[i].name : i \in 1..Len(items)})
         IN  IF hasOfficialSource \/ uniqueSources >= 2
             THEN "VERIFIED"
             ELSE "CLAIM_UNVERIFIED"

\* analyzeCluster is called with the items of a cluster and whether the text
\* showed an AI capability.
InitAnalysis ==
    /\ ClusteringInit
    /\ anItems \in ItemLists
    /\ anHasAI \in BOOLEAN
    /\ anStatus = "none"
    /\ anScore = 0
    /\ anPc = "input"
    /\ PipelineIdle
    /\ SummariesIdle
    /\ userAlerts = << >>
    /\ AlertsIdle
    /\ TextIdle

\* analyzeCluster, the verification status.
DetermineStatus ==
    /\ anPc = "input"
    /\ anStatus' = determineVerificationStatus(anItems, anHasAI)
    /\ anPc' = "status"
    /\ UNCHANGED <<anItems, anHasAI, anScore>>
    /\ UNCHANGED beyondAnalysis

\* analyzeCluster, the confidence score from the status just determined.
ScoreConfidence ==
    /\ anPc = "status"
    /\ anScore' = calculateConfidence(anItems, anStatus)
    /\ anPc' = "scored"
    /\ UNCHANGED <<anItems, anHasAI, anStatus>>
    /\ UNCHANGED beyondAnalysis

\* calculateConfidence on its own, with either status.
CallConfidence ==
    /\ anPc = "input"
    /\ \E v \in VerificationStatuses :
          /\ anStatus' = v
          /\ anScore' = calculateConfidence(anItems, v)
    /\ anPc' = "called"
    /\ UNCHANGED <<anItems, anHasAI>>
    /\ UNCHANGED beyondAnalysis

\* The next call of analyzeCluster, on a cluster with one item more.
AnalyzeLarger ==
    /\ anPc = "status"
    /\ Len(anItems) < MaxSources
    /\ \E s \in ItemSources :
          /\ anItems' = Append(anItems, s)
          /\ anStatus' = determineVerificationStatus(Append(anItems, s), anHasAI)
    /\ UNCHANGED <<anHasAI, anScore, anPc>>
    /\ UNCHANGED beyondAnalysis

NextAnalysis ==
    \/ DetermineStatus
    \/ ScoreConfidence
    \/ CallConfidence
    \/ AnalyzeLarger

SpecAnalysis == InitAnalysis /\ [][NextAnalysis]_vars

\* -------------------------------------------------------------- job runners
StageNames ==
    <<"fetch_sources", "normalize", "dedupe_and_cluster", "summarize_and_analyze",
      "alerts">>

\* JobType and, since the trigger route rejects nothing but an empty name,
\* some other string.
JobNames == Range(StageNames) \cup {"full_pipeline", "other"}

\* The job names each runner is started with.
Callers ==
    [runAllJobs |-> {"full_pipeline"},
     runJobAsync |-> JobNames,
     processJob |-> JobNames \ {"other"}]

StagesOfUnknownAsPipeline(jobName) ==
    IF jobName \in Range(StageNames) THEN <<jobName>> ELSE StageNames

\* The stage functions runJobAsync awaits for a job name, in the order of
\* the code; the switch has no case for another name.
StagesOf(jobName) ==
    IF jobName = "full_pipeline" THEN StageNames
    ELSE IF jobName \in Range(StageNames) THEN <<jobName>>
    ELSE << >>

\* The same for the switch of processJob and for the body of runAllJobs.
processJobStages(type) ==
    IF type = "full_pipeline"
    THEN <<"fetch_sources", "normalize", "dedupe_and_cluster",
           "summarize_and_analyze", "alerts">>
    ELSE IF type \in {"fetch_sources", "normalize", "dedupe_and_cluster",
                      "summarize_and_analyze", "alerts"}
         THEN <<type>>
    ELSE << >>

runAllJobsStages ==
    <<"fetch_sources", "normalize", "dedupe_and_cluster", "summarize_and_analyze",
      "alerts">>

\* The stage functions the runner of a run awaits.
StagesFor(run) ==
    CASE run.caller = "runAllJobs" -> runAllJobsStages
      [] run.caller = "runJobAsync" -> StagesOf(run.jobName)
      [] run.caller = "processJob" -> processJobStages(run.jobName)

Counts == 0..MaxCount

\* What a stage function returns.
StageResults(stage) ==
    CASE stage = "fetch_sources" -> [itemsFetched : Counts]
      [] stage = "normalize" -> [itemsProcessed : Counts]
      [] stage = "dedupe_and_cluster" ->
            {r \in [clustersCreated : Counts, itemsLinked : Counts] :
                r.clustersCreated <= r.itemsLinked}
      [] stage = "summarize_and_analyze" -> [summariesCreated : Counts]
      [] stage = "alerts" -> [alertsSent : Counts]

\* The tables a stage function creates or updates rows of.
StageTables(stage) ==
    CASE stage = "fetch_sources" -> {"Source", "RawItem"}
      [] stage = "normalize" -> {"RawItem"}
      [] stage = "dedupe_and_cluster" -> {"StoryCluster", "StoryItemLink", "RawItem"}
      [] stage = "summarize_and_analyze" -> {"StorySummary"}
      [] stage = "alerts" -> {"Notification"}

\* The tables written by a stage that returns result.
StageWrites(stage, result) ==
    CASE stage = "fetch_sources" ->
            {"Source"} \cup (IF result.itemsFetched > 0 THEN {"RawItem"} ELSE {})
      [] stage = "normalize" ->
            IF result.itemsProcessed > 0 THEN {"RawItem"} ELSE {}
      [] stage = "dedupe_and_cluster" ->
            (IF result.clustersCreated > 0 THEN {"StoryCluster"} ELSE {})
            \cup (IF result.itemsLinked > 0 THEN {"StoryItemLink", "RawItem"} ELSE {})
      [] stage = "summarize_and_analyze" ->
            IF result.summariesCreated > 0 THEN {"StorySummary"} ELSE {}
      [] stage = "alerts" ->
            IF result.alertsSent > 0 THEN {"Notification"} ELSE {}

\* loadSourcesConfig is the first statement of fetchSourcesJob,
\* loadCompetitorsConfig is called by dedupeAndClusterJob after its findMany
\* and by analyzeCluster for the first cluster summarizeAndAnalyzeJob
\* analyses; schema.parse throws on a malformed file.
ConfigErrors(stage) ==
    IF stage = "fetch_sources" /\ ~sourcesOk THEN {"sources.yaml"}
    ELSE IF stage \in {"dedupe_and_cluster", "summarize_and_analyze"} /\ ~competitorsOk
         THEN {"competitors.yaml"}
    ELSE {}

\* The results a stage can return: none when it loads a malformed file on
\* every path, no summary when analyzeCluster cannot load the competitors.
Returns(stage) ==
    IF stage \in {"fetch_sources", "dedupe_and_cluster"} /\ ConfigErrors(stage) # {}
    THEN {}
    ELSE IF stage = "summarize_and_analyze" /\ ConfigErrors(stage) # {}
         THEN {r \in StageResults(stage) : r.summariesCreated = 0}
    ELSE StageResults(stage)

\* The ways a stage can throw: [error, wrote]. A configuration error comes
\* before the stage's first write; a store operation can throw before the
\* first write or after writes, and in fetchSourcesJob only after the
\* configuration is loaded.
Throws(stage) ==
    {[error |-> e, wrote |-> {}] : e \in ConfigErrors(stage)}
    \cup IF stage = "fetch_sources" /\ ConfigErrors(stage) # {}
         THEN {}
         ELSE {[error |-> "store", wrote |-> w] :
                 w \in IF ConfigErrors(stage) # {} THEN {{}} ELSE {{}, StageTables(stage)}}

\* The itemsProcessed runJobAsync reports for the results of its stages.
Reported(jobName, results) ==
    CASE jobName = "full_pipeline" ->
            results[1].itemsFetched + results[2].itemsProcessed
            + results[3].itemsLinked + results[4].summariesCreated
            + results[5].alertsSent
      [] jobName = "fetch_sources" -> results[1].itemsFetched
      [] jobName = "normalize" -> results[1].itemsProcessed
      [] jobName = "dedupe_and_cluster" ->
            results[1].clustersCreated + results[1].itemsLinked
      [] jobName = "summarize_and_analyze" -> results[1].summariesCreated
      [] jobName = "alerts" -> results[1].alertsSent
      [] OTHER -> 0

processJobReportedWithClusters(type, results) ==
    CASE type = "full_pipeline" ->
            results[1].itemsFetched + results[2].itemsProcessed
            + results[3].clustersCreated + results[3].itemsLinked
            + results[4].summariesCreated + results[5].alertsSent
      [] OTHER -> Reported(type, results)

\* The same for processJob and for runAllJobs.
processJobReported(type, results) ==
    CASE type = "full_pipeline" ->
            results[1].itemsFetched + results[2].itemsProcessed
            + results[3].itemsLinked + results[4].summariesCreated
            + results[5].alertsSent
      [] type = "fetch_sources" -> results[1].itemsFetched
      [] type = "normalize" -> results[1].itemsProcessed
      [] type = "dedupe_and_cluster" ->
            results[1].clustersCreated + results[1].itemsLinked
      [] type = "summarize_and_analyze" -> results[1].summariesCreated
      [] type = "alerts" -> results[1].alertsSent
      [] OTHER -> 0

runAllJobsReported(results) ==
    results[1].itemsFetched + results[2].itemsProcessed
    + results[3].itemsLinked + results[4].summariesCreated
    + results[5].alertsSent

\* The itemsProcessed the runner of a run reports.
ReportedBy(run) ==
    CASE run.caller = "runAllJobs" -> runAllJobsReported(run.results)
      [] run.caller = "runJobAsync" -> Reported(run.jobName, run.results)
      [] run.caller = "processJob" -> processJobReported(run.jobName, run.results)

createJobLog(jobName) ==
    Append(jobRunLogs, [jobName |-> jobName, status |-> "RUNNING",
                        itemsProcessed |-> 0, errorMessage |-> "none"])

updateJobLogKeepStatus(id, status, itemsProcessed, errorMessage) ==
    [jobRunLogs EXCEPT ![id] = [@ EXCEPT !.itemsProcessed = itemsProcessed,
                                         !.errorMessage = errorMessage]]

updateJobLog(id, status, itemsProcessed, errorMessage) ==
    [jobRunLogs EXCEPT ![id] = [@ EXCEPT !.status = status,
                                         !.itemsProcessed = itemsProcessed,
                                         !.errorMessage = errorMessage]]

InitPipeline ==
    /\ ClusteringInit
    /\ AnalysisIdle
    /\ jobRunLogs = << >>
    /\ runs = << >>
    /\ sourcesOk \in BOOLEAN
    /\ competitorsOk \in BOOLEAN
    /\ SummariesIdle
    /\ userAlerts = << >>
    /\ AlertsIdle
    /\ TextIdle

\* A runner is called, here after the runs before it have settled:
\* createJobLog, then the try block is entered. The run is known by the id
\* of its log; results are those of the stages that have returned, entered
\* the stages called, wrote the tables written so far.
StartRun(caller, jobName) ==
    /\ Len(jobRunLogs) < MaxRuns
    /\ \A id \in 1..Len(runs) : runs[id].at = "done"
    /\ jobName \in Callers[caller]
    /\ jobRunLogs' = createJobLog(jobName)
    /\ runs' = Append(runs, [caller |-> caller, jobName |-> jobName, at |-> "try",
                             results |-> << >>, entered |-> << >>, wrote |-> {},
                             error |-> "none", thrown |-> "none"])
    /\ UNCHANGED <<sourcesOk, competitorsOk>>
    /\ UNCHANGED beyondPipeline

NextStage(id) == StagesFor(runs[id])[Len(runs[id].entered) + 1]

AfterThrowGoOn(run, t) ==
    [run EXCEPT !.error = t.error, !.wrote = @ \cup t.wrote,
                !.results = Append(@, [itemsFetched |-> 0, itemsProcessed |-> 0,
                                       clustersCreated |-> 0, itemsLinked |-> 0,
                                       summariesCreated |-> 0, alertsSent |-> 0])]

\* The run after the stage it awaits has thrown: control is in the catch block.
AfterThrow(run, t) ==
    [run EXCEPT !.at = "catch", !.error = t.error, !.wrote = @ \cup t.wrote]

\* The awaited stage function returns.
StageReturns(id) ==
    /\ id \in 1..Len(runs)
    /\ runs[id].at = "try"
    /\ Len(runs[id].entered) < Len(StagesFor(runs[id]))
    /\ \E result \in Returns(NextStage(id)) :
          runs' = [runs EXCEPT ![id] =
                      [@ EXCEPT !.entered = Append(@, NextStage(id)),
                                !.results = Append(@, result),
                                !.wrote = @ \cup StageWrites(NextStage(id), result)]]
    /\ UNCHANGED <<jobRunLogs, sourcesOk, competitorsOk>>
    /\ UNCHANGED beyondPipeline

\* The awaited stage function throws.
StageThrows(id) ==
    /\ id \in 1..Len(runs)
    /\ runs[id].at = "try"
    /\ Len(runs[id].entered) < Len(StagesFor(runs[id]))
    /\ \E t \in Throws(NextStage(id)) :
          runs' = [runs EXCEPT ![id] =
                      AfterThrow([@ EXCEPT !.entered = Append(@, NextStage(id))], t)]
    /\ UNCHANGED <<jobRunLogs, sourcesOk, competitorsOk>>
    /\ UNCHANGED beyondPipeline

\* The end of the try block: updateJobLog(jobLogId, "COMPLETED", total).
CompleteRun(id) ==
    /\ id \in 1..Len(runs)
    /\ runs[id].at = "try"
    /\ Len(runs[id].entered) = Len(StagesFor(runs[id]))
    /\ jobRunLogs' = updateJobLog(id, "COMPLETED",
                                  ReportedBy(runs[id]), "none")
    /\ runs' = [runs EXCEPT ![id].at = "done", ![id].results = << >>]
    /\ UNCHANGED <<sourcesOk, competitorsOk>>
    /\ UNCHANGED beyondPipeline

FailRunKeepingCounts(id) ==
    /\ id \in 1..Len(runs)
    /\ runs[id].at = "catch"
    /\ jobRunLogs' = updateJobLog(id, "FAILED", Len(runs[id].results), runs[id].error)
    /\ runs' = [runs EXCEPT ![id].at = "done", ![id].thrown = runs[id].error]
    /\ UNCHANGED <<sourcesOk, competitorsOk>>
    /\ UNCHANGED beyondPipeline

\* The catch block: updateJobLog(jobLogId, "FAILED", 0, errorMsg); throw error.
FailRun(id) ==
    /\ id \in 1..Len(runs)
    /\ runs[id].at = "catch"
    /\ jobRunLogs' = updateJobLog(id, "FAILED", 0, runs[id].error)
    /\ runs' = [runs EXCEPT ![id].at = "done",
                             ![id].thrown = runs[id].error]
    /\ UNCHANGED <<sourcesOk, competitorsOk>>
    /\ UNCHANGED beyondPipeline

RunStep(id) ==
    \/ StageReturns(id)
    \/ StageThrows(id)
    \/ CompleteRun(id)
    \/ FailRun(id)

NextPipeline ==
    \/ \E caller \in DOMAIN Callers, jobName \in JobNames : StartRun(caller, jobName)
    \/ \E id \in 1..MaxRuns : RunStep(id)

\* A runner that was called goes on until its promise settles: its stage
\* functions return or throw, and the log updates are awaited.
SpecPipeline ==
    InitPipeline /\ [][NextPipeline]_vars /\ \A id \in 1..MaxRuns : WF_vars(RunStep(id))

\* ---------------------------------------------------- summarizeAndAnalyzeJob
Priorities == {"P0", "P1", "P2"}

\* Two of the AICapability tags.
Capabilities == {"AI_VOICE_AGENT", "AI_CHAT_AGENT"}

\* What detectPriority and detectAICapabilities find in the texts of
\* ItemShapes, which hold no word of any pattern: P2, no capability.
PlainFindings == {[priority |-> "P2", aiCapabilities |-> {}]}

\* take: 50 -- the number of rows returned when n rows match.
TakeSummaries(n) == IF n < SummaryBatchLimit THEN n ELSE SummaryBatchLimit

WithoutSummaryAny(c) == TRUE

\* where: { summaries: { none: {} } }
WithoutSummary(c) ==
    \A k \in 1..Len(storySummaries) : storySummaries[k].clusterId # c

\* cluster.storyLinks.map(link => link.rawItem): the ids of the items linked.
ItemsOfCluster(c) ==
    LET links == SelectSeq(storyItemLinks, LAMBDA l : l.clusterId = c)
    IN  [k \in 1..Len(links) |-> links[k].rawItemId]

NextWithItemsAny(rows, idx) == idx

\* `if (items.length === 0) continue;` -- the first row from idx on that has
\* items, Len(rows) + 1 when there is none.
NextWithItems(rows, idx) ==
    Min({j \in idx..Len(rows) : rows[j].items # << >>} \cup {Len(rows) + 1})

\* items.map(item => `${item.title || ""} ${item.rawText || ""}`).join(" ")
RECURSIVE combinedText(_)
combinedText(items) ==
    IF items = << >> THEN << >>
    ELSE LET item == rawItems[Head(items)]
         IN  item.title \o (IF item.hasText THEN item.rawText ELSE << >>)
             \o combinedText(Tail(items))

detectCompetitorNamesFirst(text) ==
    LET textLower == toLowerCase(text)
        named == {c \in 1..Len(competitors) :
                    includes(textLower, toLowerCase(competitors[c].name))}
        keyed == {c \in 1..Len(competitors) :
                    \E k \in 1..Len(competitors[c].keywords) :
                       includes(textLower, toLowerCase(competitors[c].keywords[k]))}
    IN  IF named # {} THEN Min(named)
        ELSE IF keyed # {} THEN Min(keyed)
        ELSE 0

\* detectCompetitor: the index of the first configured competitor whose
\* name or keyword occurs in the lower-cased text, 0 for null.
detectCompetitor(text) ==
    LET textLower == toLowerCase(text)
        hit(comp) ==
            \/ includes(textLower, toLowerCase(comp.name))
            \/ \E k \in 1..Len(comp.keywords) :
                  includes(textLower, toLowerCase(comp.keywords[k]))
        matching == {c \in 1..Len(competitors) : hit(competitors[c])}
    IN  IF matching = {} THEN 0 ELSE Min(matching)

\* analysis.verticals[0], looked up; "none" is null.
FirstVertical(competitor) ==
    IF competitor = 0 \/ competitors[competitor].verticals = << >>
    THEN "none"
    ELSE competitors[competitor].verticals[1]

\* The StorySummary row created for a cluster row of the batch: the columns
\* read again later; citations has one entry for each item analysed.
SummaryRow(cluster, finding) ==
    LET competitor == detectCompetitor(combinedText(cluster.items))
    IN  [clusterId |-> cluster.id,
         competitorId |-> competitor,
         verticalId |-> FirstVertical(competitor),
         aiCapabilities |-> finding.aiCapabilities,
         priority |-> finding.priority,
         citations |-> cluster.items,
         createdAt |-> clock]

\* findMany (take: 50) with the links included; then the loop is at its
\* first cluster with items. No orderBy: any rows, in any order.
StartSummarize ==
    /\ sumPc = "idle"
    /\ LET without == {c \in 1..Len(storyClusters) : WithoutSummary(c)}
       IN  \E batch \in Arrangements(without, TakeSummaries(Cardinality(without))) :
              LET rows == [k \in 1..Len(batch) |->
                             [id |-> batch[k], items |-> ItemsOfCluster(batch[k])]]
                  first == NextWithItems(rows, 1)
              IN  /\ clustersWithoutSummaries' = rows
                  /\ sumIdx' = first
                  /\ sumPc' = IF first > Len(rows) THEN "return" ELSE "create"
    /\ summariesCreated' = 0
    /\ UNCHANGED storySummaries
    /\ UNCHANGED beyondSummaries

\* One round of the loop: analyzeCluster, the two lookups,
\* storySummary.create, summariesCreated++; then on to the next cluster
\* with items.
CreateSummaryOf(findings) ==
    /\ sumPc = "create"
    /\ \E finding \in findings :
          storySummaries' =
             Append(storySummaries, SummaryRow(clustersWithoutSummaries[sumIdx], finding))
    /\ summariesCreated' = summariesCreated + 1
    /\ LET next == NextWithItems(clustersWithoutSummaries, sumIdx + 1)
       IN  /\ sumIdx' = next
           /\ sumPc' = IF next > Len(clustersWithoutSummaries) THEN "return" ELSE "create"
    /\ UNCHANGED clustersWithoutSummaries
    /\ UNCHANGED beyondSummaries

\* return { summariesCreated }
ReturnSummarize ==
    /\ sumPc = "return"
    /\ sumPc' = "idle"
    /\ clustersWithoutSummaries' = << >>
    /\ sumIdx' = 1
    /\ summariesCreated' = 0
    /\ UNCHANGED storySummaries
    /\ UNCHANGED beyondSummaries

\* Items arrive between the runs; a dedupeAndClusterJob run and a
\* summarizeAndAnalyzeJob run, started by different triggers, interleave.
NextSummaries ==
    \/ sumPc = "idle" /\ CreateRawItem
    \/ StartJobAlone(1)
    \/ JobStep(1)
    \/ StartSummarize
    \/ CreateSummaryOf(PlainFindings)
    \/ ReturnSummarize

SpecSummaries == Init /\ [][NextSummaries]_vars

\* The jobs run one after the other, as the stages of the pipeline do.
\* Between the runs items arrive; a dedupeAndClusterJob run may abort and
\* leave a cluster without links behind, as many times as one batch of
\* summarizeAndAnalyzeJob holds rows.
ClusteringStep ==
    /\ sumPc = "idle"
    /\ \/ pc[1] = "idle" /\ CreateRawItemOf(OverlapShapes)
       \/ StartJobAlone(1)
       \/ JobStep(1)
       \/ StoreThrowsWithin(1, SummaryBatchLimit)

InvokeSummarize == pc[1] = "idle" /\ StartSummarize

NextBacklog ==
    \/ ClusteringStep
    \/ InvokeSummarize
    \/ CreateSummaryOf(PlainFindings)
    \/ ReturnSummarize

\* summarizeAndAnalyzeJob is invoked again and again and no invocation
\* fails; a dedupeAndClusterJob run that has begun goes on until it returns
\* or aborts.
SpecBacklog ==
    /\ Init
    /\ [][NextBacklog]_vars
    /\ SF_vars(InvokeSummarize)
    /\ WF_vars(CreateSummaryOf(PlainFindings))
    /\ WF_vars(ReturnSummarize)
    /\ WF_vars(JobStep(1))

\* ------------------------------------------------------------------ alertsJob
Users == {"u1", "u2"}

\* UserAlert rows with their verticals and competitors included.
AllRules ==
    [userId : Users,
     minPriority : Priorities,
     verticals : {{}, {"support"}, {"sales"}},
     competitors : {{}, {1}, {2}},
     aiCapabilities : {{}, {"AI_VOICE_AGENT"}, {"AI_CHAT_AGENT"}},
     isActive : BOOLEAN]

\* The rule that lets every P0 and P1 summary through.
OpenRule ==
    [userId |-> "u1", minPriority |-> "P2", verticals |-> {}, competitors |-> {},
     aiCapabilities |-> {}, isActive |-> TRUE]

\* The rules the table is filled with: the open rule and the rules that
\* differ from it in one column.
RuleShapes ==
    {r \in AllRules : Cardinality({f \in DOMAIN r : r[f] # OpenRule[f]}) <= 1}

\* What the summaries alertsJob reads can hold: a competitor (0 is null)
\* with its first vertical, a priority, capabilities.
SummaryShapes ==
    {sh \in [competitorId : 0..Len(competitors), priority : Priorities,
             aiCapabilities : SUBSET Capabilities] :
        Cardinality({f \in DOMAIN sh :
            sh[f] # [competitorId |-> 1, priority |-> "P0",
                     aiCapabilities |-> {"AI_VOICE_AGENT"}][f]}) <= 1}

\* The match of lines 515-531.
Matches(alert, summary) ==
    LET matchesVertical ==
            alert.verticals = {} \/ summary.verticalId \in alert.verticals
        matchesCompetitor ==
            alert.competitors = {} \/ summary.competitorId \in alert.competitors
        matchesPriority ==
            \/ summary.priority = "P0"
            \/ summary.priority = "P1" /\ alert.minPriority # "P0"
        matchesCapability ==
            \/ alert.aiCapabilities = {}
            \/ summary.aiCapabilities \cap alert.aiCapabilities # {}
    IN  matchesVertical /\ matchesCompetitor /\ matchesPriority /\ matchesCapability

\* where: { priority: { in: ["P0", "P1"] }, createdAt: { gte: now - 6 h } }
Recent(s) ==
    /\ storySummaries[s].priority \in {"P0", "P1"}
    /\ storySummaries[s].createdAt * HoursPerTick
          >= clock * HoursPerTick - AlertWindowHours

NotificationExistsNever(userId, storyId) == FALSE

\* notification.findFirst({ where: { userId, storyId } }) finds a row.
NotificationExists(userId, storyId) ==
    \E n \in 1..Len(notifications) :
       notifications[n].userId = userId /\ notifications[n].storyId = storyId

CurAlert == userAlerts[alerts[ai]]

CurSummary == recentSummaries[si]

InitAlerts ==
    /\ ClusteringInit
    /\ AnalysisIdle
    /\ PipelineIdle
    /\ SummariesIdle
    /\ userAlerts \in UNION {[1..n -> RuleShapes] : n \in 1..MaxRules}
    /\ AlertsIdle
    /\ TextIdle

\* summarizeAndAnalyzeJob has created a StorySummary: the columns alertsJob
\* reads, for a cluster of its own.
SummaryArrives ==
    /\ alPc = "idle"
    /\ Len(storySummaries) < MaxSummaries
    /\ \E sh \in SummaryShapes :
          storySummaries' =
             Append(storySummaries,
                [clusterId |-> Len(storySummaries) + 1,
                 competitorId |-> sh.competitorId,
                 verticalId |-> FirstVertical(sh.competitorId),
                 aiCapabilities |-> sh.aiCapabilities,
                 priority |-> sh.priority,
                 createdAt |-> clock])
    /\ UNCHANGED <<userAlerts, notifications, alPc, recentSummaries, alerts, si, ai,
                   alertsSent, alStart, alertedUpTo>>
    /\ UNCHANGED beyondAlerts

\* The two findMany calls. No orderBy: the rows in any order.
StartAlerts ==
    /\ alPc = "idle"
    /\ LET recent == {s \in 1..Len(storySummaries) : Recent(s)}
           active == {a \in 1..Len(userAlerts) : userAlerts[a].isActive}
       IN  \E rs \in Arrangements(recent, Cardinality(recent)),
              as \in Arrangements(active, Cardinality(active)) :
              /\ recentSummaries' = rs
              /\ alerts' = as
              /\ alPc' = IF rs = << >> \/ as = << >> THEN "return" ELSE "pair"
    /\ si' = 1
    /\ ai' = 1
    /\ alertsSent' = 0
    /\ alStart' = Len(storySummaries)
    /\ UNCHANGED <<storySummaries, userAlerts, notifications, alertedUpTo>>
    /\ UNCHANGED beyondAlerts

\* The loops go on to the next alert, the next summary, or end.
Advance ==
    IF ai < Len(alerts)
    THEN ai' = ai + 1 /\ si' = si /\ alPc' = "pair"
    ELSE IF si < Len(recentSummaries)
         THEN ai' = 1 /\ si' = si + 1 /\ alPc' = "pair"
         ELSE ai' = ai /\ si' = si /\ alPc' = "return"

\* One pair of the loops: the match, and for a match the findFirst.
CheckPair ==
    /\ alPc = "pair"
    /\ IF /\ Matches(CurAlert, storySummaries[CurSummary])
          /\ ~NotificationExists(CurAlert.userId, CurSummary)
       THEN alPc' = "create" /\ UNCHANGED <<si, ai>>
       ELSE Advance
    /\ UNCHANGED <<storySummaries, userAlerts, notifications, recentSummaries, alerts,
                   alertsSent, alStart, alertedUpTo>>
    /\ UNCHANGED beyondAlerts

\* notification.create, alertsSent++.
CreateNotification ==
    /\ alPc = "create"
    /\ notifications' =
          Append(notifications, [userId |-> CurAlert.userId, storyId |-> CurSummary])
    /\ alertsSent' = alertsSent + 1
    /\ Advance
    /\ UNCHANGED <<storySummaries, userAlerts, recentSummaries, alerts, alStart,
                   alertedUpTo>>
    /\ UNCHANGED beyondAlerts

\* return { alertsSent }
ReturnAlerts ==
    /\ alPc = "return"
    /\ alPc' = "idle"
    /\ recentSummaries' = << >>
    /\ alerts' = << >>
    /\ si' = 1
    /\ ai' = 1
    /\ alertsSent' = 0
    /\ alertedUpTo' = alStart
    /\ alStart' = 0
    /\ UNCHANGED <<storySummaries, userAlerts, notifications>>
    /\ UNCHANGED beyondAlerts

\* Summaries arrive and time passes between the runs of alertsJob, which
\* follow one another.
NextAlerts ==
    \/ SummaryArrives
    \/ alPc = "idle" /\ Tick
    \/ StartAlerts
    \/ CheckPair
    \/ CreateNotification
    \/ ReturnAlerts

SpecAlerts == InitAlerts /\ [][NextAlerts]_vars

\* ------------------------------------------------- text analysis (lib/ai.ts)
\* The words the analysed texts are made of: names and a keyword of the
\* configured competitors, words of the capability and priority patterns, and
\* a word that holds the letters "ai" without being the word "ai".
TextWords ==
    {"Acme", "acme", "Bolt", "kw", "AI", "voice", "chat", "launch", "beta",
     "campaign"}

\* The combined texts of a cluster, up to MaxWords words.
Texts == UNION {[1..n -> TextWords] : n \in 0..MaxWords}

\* The characters of a word.
Spell(word) ==
    CASE word = "Acme" -> <<"A", "c", "m", "e">>
      [] word = "acme" -> <<"a", "c", "m", "e">>
      [] word = "Bolt" -> <<"B", "o", "l", "t">>
      [] word = "kw" -> <<"k", "w">>
      [] word = "AI" -> <<"A", "I">>
      [] word = "voice" -> <<"v", "o", "i", "c", "e">>
      [] word = "chat" -> <<"c", "h", "a", "t">>
      [] word = "launch" -> <<"l", "a", "u", "n", "c", "h">>
      [] word = "beta" -> <<"b", "e", "t", "a">>
      [] word = "campaign" -> <<"c", "a", "m", "p", "a", "i", "g", "n">>

\* The characters of a text: its words, one blank between two of them.
RECURSIVE Chars(_)
Chars(text) ==
    IF text = << >> THEN << >>
    ELSE IF Len(text) = 1 THEN Spell(text[1])
    ELSE Spell(Head(text)) \o <<" ">> \o Chars(Tail(text))

\* The /i flag: a character of the text, lower-cased.
LowerChar(c) ==
    CASE c = "A" -> "a"
      [] c = "B" -> "b"
      [] c = "I" -> "i"
      [] OTHER -> c

Letters ==
    {"a", "b", "c", "d", "e", "f", "g", "h", "i", "j", "k", "l", "m", "n", "o",
     "p", "q", "r", "s", "t", "u", "v", "w", "x", "y", "z"}

Digits09 == {"0", "1", "2", "3", "4", "5", "6", "7", "8", "9"}

\* The elements of the regular expressions of the pattern tables: a group of
\* alternative literals (one literal, or `x?` as x or nothing), \s*, .*, \d+,
\* [a-z] and \b.
Lit(alts) == [k |-> "lit", alts |-> alts]

Sp == [k |-> "sp", alts |-> {}]

DotStar == [k |-> "any", alts |-> {}]

Digits == [k |-> "digits", alts |-> {}]

AZ == [k |-> "az", alts |-> {}]

Wb == [k |-> "wb", alts |-> {}]

\* A word character (\w) stands at position j of s.
WordCharAt(s, j) ==
    j \in 1..Len(s) /\ LowerChar(s[j]) \in Letters \cup Digits09 \cup {"_"}

\* The positions at which the match of element el can end when it begins at
\* position p of s (a position is the index of the next character to read).
Step(el, s, p) ==
    CASE el.k = "lit" ->
           {p + Len(a) : a \in
              {b \in el.alts :
                 /\ p + Len(b) - 1 <= Len(s)
                 /\ \A j \in 1..Len(b) : LowerChar(s[p + j - 1]) = b[j]}}
      [] el.k = "sp" ->
           {q \in p..(Len(s) + 1) : \A j \in p..(q - 1) : s[j] = " "}
      [] el.k = "any" -> p..(Len(s) + 1)
      [] el.k = "digits" ->
           {q \in (p + 1)..(Len(s) + 1) : \A j \in p..(q - 1) : s[j] \in Digits09}
      [] el.k = "az" ->
           IF p <= Len(s) /\ LowerChar(s[p]) \in Letters THEN {p + 1} ELSE {}
      [] el.k = "wb" ->
           IF WordCharAt(s, p - 1) # WordCharAt(s, p) THEN {p} ELSE {}

\* The positions at which a match of the elements of pattern can end when it
\* begins at one of the positions from.
RECURSIVE Ends(_, _, _)
Ends(pattern, s, from) ==
    IF pattern = << >> \/ from = {} THEN from
    ELSE Ends(Tail(pattern), s, UNION {Step(Head(pattern), s, p) : p \in from})

\* pattern.test(text): the pattern matches somewhere in the text.
test(pattern, text) ==
    LET s == Chars(text) IN Ends(pattern, s, 1..(Len(s) + 1)) # {}

\* Some pattern of the list matches the text.
AnyMatches(patterns, text) ==
    \E k \in 1..Len(patterns) : test(patterns[k], text)

AI_CAPABILITY_PATTERNS ==
    << [capability |-> "AI_VOICE_AGENT",
       patterns |-> <<
            \* /voice\s*(ai|agent|assistant|bot)/i
            <<Lit({<<"v", "o", "i", "c", "e">>}), Sp, Lit({<<"a", "i">>, <<"a", "g", "e", "n", "t">>, <<"a", "s", "s", "i", "s", "t", "a", "n", "t">>, <<"b", "o", "t">>})>>,
            \* /ai\s*voice/i
            <<Lit({<<"a", "i">>}), Sp, Lit({<<"v", "o", "i", "c", "e">>})>>,
            \* /conversational\s*ai.*voice/i
            <<Lit({<<"c", "o", "n", "v", "e", "r", "s", "a", "t", "i", "o", "n", "a", "l">>}), Sp, Lit({<<"a", "i">>}), DotStar, Lit({<<"v", "o", "i", "c", "e">>})>>,
            \* /phone\s*(ai|bot|agent)/i
            <<Lit({<<"p", "h", "o", "n", "e">>}), Sp, Lit({<<"a", "i">>, <<"b", "o", "t">>, <<"a", "g", "e", "n", "t">>})>>,
            \* /virtual\s*receptionist/i
            <<Lit({<<"v", "i", "r", "t", "u", "a", "l">>}), Sp, Lit({<<"r", "e", "c", "e", "p", "t", "i", "o", "n", "i", "s", "t">>})>>,
            \* /ai\s*calling/i
            <<Lit({<<"a", "i">>}), Sp, Lit({<<"c", "a", "l", "l", "i", "n", "g">>})>>,
            \* /voice\s*automation/i
            <<Lit({<<"v", "o", "i", "c", "e">>}), Sp, Lit({<<"a", "u", "t", "o", "m", "a", "t", "i", "o", "n">>})>> >>],
       [capability |-> "AI_CHAT_AGENT",
       patterns |-> <<
            \* /chat\s*(ai|bot|agent)/i
            <<Lit({<<"c", "h", "a", "t">>}), Sp, Lit({<<"a", "i">>, <<"b", "o", "t">>, <<"a", "g", "e", "n", "t">>})>>,
            \* /ai\s*chat/i
            <<Lit({<<"a", "i">>}), Sp, Lit({<<"c", "h", "a", "t">>})>>,
            \* /conversational\s*ai/i
            <<Lit({<<"c", "o", "n", "v", "e", "r", "s", "a", "t", "i", "o", "n", "a", "l">>}), Sp, Lit({<<"a", "i">>})>>,
            \* /live\s*chat.*ai/i
            <<Lit({<<"l", "i", "v", "e">>}), Sp, Lit({<<"c", "h", "a", "t">>}), DotStar, Lit({<<"a", "i">>})>>,
            \* /messaging\s*ai/i
            <<Lit({<<"m", "e", "s", "s", "a", "g", "i", "n", "g">>}), Sp, Lit({<<"a", "i">>})>>,
            \* /ai\s*messaging/i
            <<Lit({<<"a", "i">>}), Sp, Lit({<<"m", "e", "s", "s", "a", "g", "i", "n", "g">>})>> >>],
       [capability |-> "AI_LEAD_RESPONSE",
       patterns |-> <<
            \* /lead\s*response.*ai/i
            <<Lit({<<"l", "e", "a", "d">>}), Sp, Lit({<<"r", "e", "s", "p", "o", "n", "s", "e">>}), DotStar, Lit({<<"a", "i">>})>>,
            \* /ai.*lead\s*(response|follow|nurtur)/i
            <<Lit({<<"a", "i">>}), DotStar, Lit({<<"l", "e", "a", "d">>}), Sp, Lit({<<"r", "e", "s", "p", "o", "n", "s", "e">>, <<"f", "o", "l", "l", "o", "w">>, <<"n", "u", "r", "t", "u", "r">>})>>,
            \* /instant\s*lead/i
            <<Lit({<<"i", "n", "s", "t", "a", "n", "t">>}), Sp, Lit({<<"l", "e", "a", "d">>})>>,
            \* /automated\s*lead/i
            <<Lit({<<"a", "u", "t", "o", "m", "a", "t", "e", "d">>}), Sp, Lit({<<"l", "e", "a", "d">>})>>,
            \* /lead\s*engagement/i
            <<Lit({<<"l", "e", "a", "d">>}), Sp, Lit({<<"e", "n", "g", "a", "g", "e", "m", "e", "n", "t">>})>> >>],
       [capability |-> "AI_SCHEDULING_BOOKING",
       patterns |-> <<
            \* /ai\s*schedul/i
            <<Lit({<<"a", "i">>}), Sp, Lit({<<"s", "c", "h", "e", "d", "u", "l">>})>>,
            \* /schedul.*ai/i
            <<Lit({<<"s", "c", "h", "e", "d", "u", "l">>}), DotStar, Lit({<<"a", "i">>})>>,
            \* /ai\s*book/i
            <<Lit({<<"a", "i">>}), Sp, Lit({<<"b", "o", "o", "k">>})>>,
            \* /book.*ai/i
            <<Lit({<<"b", "o", "o", "k">>}), DotStar, Lit({<<"a", "i">>})>>,
            \* /automated\s*schedul/i
            <<Lit({<<"a", "u", "t", "o", "m", "a", "t", "e", "d">>}), Sp, Lit({<<"s", "c", "h", "e", "d", "u", "l">>})>>,
            \* /smart\s*schedul/i
            <<Lit({<<"s", "m", "a", "r", "t">>}), Sp, Lit({<<"s", "c", "h", "e", "d", "u", "l">>})>>,
            \* /intelligent\s*schedul/i
            <<Lit({<<"i", "n", "t", "e", "l", "l", "i", "g", "e", "n", "t">>}), Sp, Lit({<<"s", "c", "h", "e", "d", "u", "l">>})>> >>],
       [capability |-> "AI_DISPATCH_ROUTING",
       patterns |-> <<
            \* /ai\s*dispatch/i
            <<Lit({<<"a", "i">>}), Sp, Lit({<<"d", "i", "s", "p", "a", "t", "c", "h">>})>>,
            \* /dispatch.*ai/i
            <<Lit({<<"d", "i", "s", "p", "a", "t", "c", "h">>}), DotStar, Lit({<<"a", "i">>})>>,
            \* /intelligent\s*routing/i
            <<Lit({<<"i", "n", "t", "e", "l", "l", "i", "g", "e", "n", "t">>}), Sp, Lit({<<"r", "o", "u", "t", "i", "n", "g">>})>>,
            \* /ai\s*rout/i
            <<Lit({<<"a", "i">>}), Sp, Lit({<<"r", "o", "u", "t">>})>>,
            \* /smart\s*dispatch/i
            <<Lit({<<"s", "m", "a", "r", "t">>}), Sp, Lit({<<"d", "i", "s", "p", "a", "t", "c", "h">>})>>,
            \* /automated\s*dispatch/i
            <<Lit({<<"a", "u", "t", "o", "m", "a", "t", "e", "d">>}), Sp, Lit({<<"d", "i", "s", "p", "a", "t", "c", "h">>})>> >>],
       [capability |-> "AI_MARKETING_AUTOMATION",
       patterns |-> <<
            \* /ai\s*market/i
            <<Lit({<<"a", "i">>}), Sp, Lit({<<"m", "a", "r", "k", "e", "t">>})>>,
            \* /market.*ai/i
            <<Lit({<<"m", "a", "r", "k", "e", "t">>}), DotStar, Lit({<<"a", "i">>})>>,
            \* /ai\s*campaign/i
            <<Lit({<<"a", "i">>}), Sp, Lit({<<"c", "a", "m", "p", "a", "i", "g", "n">>})>>,
            \* /automated\s*market/i
            <<Lit({<<"a", "u", "t", "o", "m", "a", "t", "e", "d">>}), Sp, Lit({<<"m", "a", "r", "k", "e", "t">>})>>,
            \* /intelligent\s*market/i
            <<Lit({<<"i", "n", "t", "e", "l", "l", "i", "g", "e", "n", "t">>}), Sp, Lit({<<"m", "a", "r", "k", "e", "t">>})>>,
            \* /ai\s*email/i
            <<Lit({<<"a", "i">>}), Sp, Lit({<<"e", "m", "a", "i", "l">>})>>,
            \* /ai\s*sms/i
            <<Lit({<<"a", "i">>}), Sp, Lit({<<"s", "m", "s">>})>> >>],
       [capability |-> "AI_REPUTATION_REVIEWS",
       patterns |-> <<
            \* /ai\s*review/i
            <<Lit({<<"a", "i">>}), Sp, Lit({<<"r", "e", "v", "i", "e", "w">>})>>,
            \* /review.*ai/i
            <<Lit({<<"r", "e", "v", "i", "e", "w">>}), DotStar, Lit({<<"a", "i">>})>>,
            \* /reputation.*ai/i
            <<Lit({<<"r", "e", "p", "u", "t", "a", "t", "i", "o", "n">>}), DotStar, Lit({<<"a", "i">>})>>,
            \* /ai\s*reputation/i
            <<Lit({<<"a", "i">>}), Sp, Lit({<<"r", "e", "p", "u", "t", "a", "t", "i", "o", "n">>})>>,
            \* /sentiment\s*analysis/i
            <<Lit({<<"s", "e", "n", "t", "i", "m", "e", "n", "t">>}), Sp, Lit({<<"a", "n", "a", "l", "y", "s", "i", "s">>})>>,
            \* /review\s*management.*ai/i
            <<Lit({<<"r", "e", "v", "i", "e", "w">>}), Sp, Lit({<<"m", "a", "n", "a", "g", "e", "m", "e", "n", "t">>}), DotStar, Lit({<<"a", "i">>})>> >>],
       [capability |-> "AI_ANALYTICS_INSIGHTS",
       patterns |-> <<
            \* /ai\s*analytic/i
            <<Lit({<<"a", "i">>}), Sp, Lit({<<"a", "n", "a", "l", "y", "t", "i", "c">>})>>,
            \* /analytic.*ai/i
            <<Lit({<<"a", "n", "a", "l", "y", "t", "i", "c">>}), DotStar, Lit({<<"a", "i">>})>>,
            \* /ai\s*insight/i
            <<Lit({<<"a", "i">>}), Sp, Lit({<<"i", "n", "s", "i", "g", "h", "t">>})>>,
            \* /predictive\s*analytic/i
            <<Lit({<<"p", "r", "e", "d", "i", "c", "t", "i", "v", "e">>}), Sp, Lit({<<"a", "n", "a", "l", "y", "t", "i", "c">>})>>,
            \* /ai\s*reporting/i
            <<Lit({<<"a", "i">>}), Sp, Lit({<<"r", "e", "p", "o", "r", "t", "i", "n", "g">>})>>,
            \* /intelligent\s*analytic/i
            <<Lit({<<"i", "n", "t", "e", "l", "l", "i", "g", "e", "n", "t">>}), Sp, Lit({<<"a", "n", "a", "l", "y", "t", "i", "c">>})>>,
            \* /data\s*ai/i
            <<Lit({<<"d", "a", "t", "a">>}), Sp, Lit({<<"a", "i">>})>> >>],
       [capability |-> "AI_PAYMENTS_COLLECTIONS",
       patterns |-> <<
            \* /ai\s*payment/i
            <<Lit({<<"a", "i">>}), Sp, Lit({<<"p", "a", "y", "m", "e", "n", "t">>})>>,
            \* /payment.*ai/i
            <<Lit({<<"p", "a", "y", "m", "e", "n", "t">>}), DotStar, Lit({<<"a", "i">>})>>,
            \* /ai\s*collection/i
            <<Lit({<<"a", "i">>}), Sp, Lit({<<"c", "o", "l", "l", "e", "c", "t", "i", "o", "n">>})>>,
            \* /collection.*ai/i
            <<Lit({<<"c", "o", "l", "l", "e", "c", "t", "i", "o", "n">>}), DotStar, Lit({<<"a", "i">>})>>,
            \* /automated\s*billing/i
            <<Lit({<<"a", "u", "t", "o", "m", "a", "t", "e", "d">>}), Sp, Lit({<<"b", "i", "l", "l", "i", "n", "g">>})>>,
            \* /smart\s*payment/i
            <<Lit({<<"s", "m", "a", "r", "t">>}), Sp, Lit({<<"p", "a", "y", "m", "e", "n", "t">>})>> >>],
       [capability |-> "AI_WORKFLOW_AUTOMATION",
       patterns |-> <<
            \* /ai\s*workflow/i
            <<Lit({<<"a", "i">>}), Sp, Lit({<<"w", "o", "r", "k", "f", "l", "o", "w">>})>>,
            \* /workflow.*ai/i
            <<Lit({<<"w", "o", "r", "k", "f", "l", "o", "w">>}), DotStar, Lit({<<"a", "i">>})>>,
            \* /process\s*automation.*ai/i
            <<Lit({<<"p", "r", "o", "c", "e", "s", "s">>}), Sp, Lit({<<"a", "u", "t", "o", "m", "a", "t", "i", "o", "n">>}), DotStar, Lit({<<"a", "i">>})>>,
            \* /ai\s*automation/i
            <<Lit({<<"a", "i">>}), Sp, Lit({<<"a", "u", "t", "o", "m", "a", "t", "i", "o", "n">>})>>,
            \* /intelligent\s*workflow/i
            <<Lit({<<"i", "n", "t", "e", "l", "l", "i", "g", "e", "n", "t">>}), Sp, Lit({<<"w", "o", "r", "k", "f", "l", "o", "w">>})>>,
            \* /ai\s*process/i
            <<Lit({<<"a", "i">>}), Sp, Lit({<<"p", "r", "o", "c", "e", "s", "s">>})>> >>] >>

P0_PATTERNS ==
    <<
      \* /launch/i
      <<Lit({<<"l", "a", "u", "n", "c", "h">>})>>,
      \* /announc/i
      <<Lit({<<"a", "n", "n", "o", "u", "n", "c">>})>>,
      \* /acqui/i
      <<Lit({<<"a", "c", "q", "u", "i">>})>>,
      \* /merger/i
      <<Lit({<<"m", "e", "r", "g", "e", "r">>})>>,
      \* /pricing\s*(change|update|new)/i
      <<Lit({<<"p", "r", "i", "c", "i", "n", "g">>}), Sp, Lit({<<"c", "h", "a", "n", "g", "e">>, <<"u", "p", "d", "a", "t", "e">>, <<"n", "e", "w">>})>>,
      \* /major\s*(update|release|feature)/i
      <<Lit({<<"m", "a", "j", "o", "r">>}), Sp, Lit({<<"u", "p", "d", "a", "t", "e">>, <<"r", "e", "l", "e", "a", "s", "e">>, <<"f", "e", "a", "t", "u", "r", "e">>})>>,
      \* /revolutionary/i
      <<Lit({<<"r", "e", "v", "o", "l", "u", "t", "i", "o", "n", "a", "r", "y">>})>>,
      \* /game\s*chang/i
      <<Lit({<<"g", "a", "m", "e">>}), Sp, Lit({<<"c", "h", "a", "n", "g">>})>>,
      \* /industry\s*first/i
      <<Lit({<<"i", "n", "d", "u", "s", "t", "r", "y">>}), Sp, Lit({<<"f", "i", "r", "s", "t">>})>>,
      \* /raises?\s*\$?\d+\s*(million|m|billion|b)/i
      <<Lit({<<"r", "a", "i", "s", "e">>}), Lit({<<"s">>, << >>}), Sp, Lit({<<"$">>, << >>}), Digits, Sp, Lit({<<"m", "i", "l", "l", "i", "o", "n">>, <<"m">>, <<"b", "i", "l", "l", "i", "o", "n">>, <<"b">>})>>,
      \* /funding\s*round/i
      <<Lit({<<"f", "u", "n", "d", "i", "n", "g">>}), Sp, Lit({<<"r", "o", "u", "n", "d">>})>>,
      \* /series\s*[a-z]/i
      <<Lit({<<"s", "e", "r", "i", "e", "s">>}), Sp, AZ>> >>

P1_PATTERNS ==
    <<
      \* /new\s*feature/i
      <<Lit({<<"n", "e", "w">>}), Sp, Lit({<<"f", "e", "a", "t", "u", "r", "e">>})>>,
      \* /improvement/i
      <<Lit({<<"i", "m", "p", "r", "o", "v", "e", "m", "e", "n", "t">>})>>,
      \* /enhanc/i
      <<Lit({<<"e", "n", "h", "a", "n", "c">>})>>,
      \* /updat/i
      <<Lit({<<"u", "p", "d", "a", "t">>})>>,
      \* /integrat/i
      <<Lit({<<"i", "n", "t", "e", "g", "r", "a", "t">>})>>,
      \* /partner/i
      <<Lit({<<"p", "a", "r", "t", "n", "e", "r">>})>>,
      \* /expand/i
      <<Lit({<<"e", "x", "p", "a", "n", "d">>})>>,
      \* /add.*capabilit/i
      <<Lit({<<"a", "d", "d">>}), DotStar, Lit({<<"c", "a", "p", "a", "b", "i", "l", "i", "t">>})>>,
      \* /beta/i
      <<Lit({<<"b", "e", "t", "a">>})>>,
      \* /early\s*access/i
      <<Lit({<<"e", "a", "r", "l", "y">>}), Sp, Lit({<<"a", "c", "c", "e", "s", "s">>})>> >>

\* /\bai\b/i
StandaloneAI == <<Wb, Lit({<<"a", "i">>}), Wb>>

\* capabilities.add(capability): a Set keeps one entry of each value, in the
\* order of insertion.
SetAdd(capabilities, capability) ==
    IF capability \in Range(capabilities) THEN capabilities
    ELSE Append(capabilities, capability)

\* The loop of detectAICapabilities over the entries of the table, from
\* entry e on.
RECURSIVE MatchedCapabilities(_, _, _)
MatchedCapabilities(text, e, capabilities) ==
    IF e > Len(AI_CAPABILITY_PATTERNS) THEN capabilities
    ELSE LET entry == AI_CAPABILITY_PATTERNS[e]
         IN  MatchedCapabilities(text, e + 1,
                IF AnyMatches(entry.patterns, text)
                THEN SetAdd(capabilities, entry.capability)
                ELSE capabilities)

detectAICapabilitiesFirstOnly(text) ==
    LET capabilities == MatchedCapabilities(text, 1, << >>)
    IN  IF Len(capabilities) = 0 /\ test(StandaloneAI, text)
        THEN <<"AI_WORKFLOW_AUTOMATION">>
        ELSE IF Len(capabilities) > 1 THEN <<capabilities[1]>>
        ELSE capabilities

detectAICapabilities(text) ==
    LET capabilities == MatchedCapabilities(text, 1, << >>)
    IN  IF Len(capabilities) = 0 /\ test(StandaloneAI, text)
        THEN SetAdd(capabilities, "AI_WORKFLOW_AUTOMATION")
        ELSE capabilities

detectPriorityP1First(text, aiCapabilities) ==
    IF AnyMatches(P1_PATTERNS, text) THEN "P1"
    ELSE IF AnyMatches(P0_PATTERNS, text) THEN "P0"
    ELSE IF "AI_VOICE_AGENT" \in Range(aiCapabilities) THEN "P1"
    ELSE "P2"

detectPriorityTextOnly(text, aiCapabilities) ==
    IF AnyMatches(P0_PATTERNS, text) THEN "P0"
    ELSE IF AnyMatches(P1_PATTERNS, text) THEN "P1"
    ELSE "P2"

detectPriority(text, aiCapabilities) ==
    IF AnyMatches(P0_PATTERNS, text) THEN "P0"
    ELSE IF AnyMatches(P1_PATTERNS, text) THEN "P1"
    ELSE IF "AI_VOICE_AGENT" \in Range(aiCapabilities) THEN "P1"
    ELSE "P2"

generateRecommendedActions(priority, aiCapabilities) ==
    LET byPriority ==
            IF priority = "P0"
            THEN <<"Schedule executive briefing to discuss implications",
                   "Assess competitive response options",
                   "Monitor customer sentiment and reactions">>
            ELSE IF priority = "P1"
            THEN <<"Add to next competitive review agenda",
                   "Evaluate feature for potential roadmap consideration">>
            ELSE << >>
        actions ==
            IF "AI_VOICE_AGENT" \in Range(aiCapabilities)
            THEN Append(byPriority, "Benchmark voice AI capabilities")
            ELSE byPriority
    IN  IF Len(actions) = 0
        THEN <<"Continue monitoring for developments">>
        ELSE actions

\* The capability arrays detectPriority is called with on its own.
CapabilityArrays ==
    {<< >>, <<"AI_VOICE_AGENT">>, <<"AI_CHAT_AGENT">>,
     <<"AI_CHAT_AGENT", "AI_VOICE_AGENT">>}

InitText ==
    /\ ClusteringInit
    /\ AnalysisIdle
    /\ PipelineIdle
    /\ SummariesIdle
    /\ userAlerts = << >>
    /\ AlertsIdle
    /\ txText \in Texts
    /\ txPc = "input"
    /\ txCompetitor = 0
    /\ txCapabilities = << >>
    /\ txPriority = "none"
    /\ txActions = << >>

\* analyzeCluster, from the combined text to the recommended actions.
AnalyzeText ==
    /\ txPc = "input"
    /\ LET aiCapabilities == detectAICapabilities(txText)
           priority == detectPriority(txText, aiCapabilities)
       IN  /\ txCompetitor' = detectCompetitor(txText)
           /\ txCapabilities' = aiCapabilities
           /\ txPriority' = priority
           /\ txActions' = generateRecommendedActions(priority, aiCapabilities)
    /\ txPc' = "analyzed"
    /\ UNCHANGED <<txText, beyondText>>

\* detectPriority called with a text and any capability array.
CallDetectPriority ==
    /\ txPc = "input"
    /\ \E aiCapabilities \in CapabilityArrays :
          /\ txCapabilities' = aiCapabilities
          /\ txPriority' = detectPriority(txText, aiCapabilities)
    /\ txPc' = "called"
    /\ UNCHANGED <<txText, txCompetitor, txActions, beyondText>>

NextText ==
    \/ AnalyzeText
    \/ CallDetectPriority

SpecText == InitText /\ [][NextText]_vars

\* ------------------------------------------------------------------ claims
TablesUnchanged ==
    /\ storyClusters' = storyClusters
    /\ storyItemLinks' = storyItemLinks

AllTextProcessed ==
    \A i \in 1..Len(rawItems) : rawItems[i].hasText => rawItems[i].processed

\* C1 as stated: once a run has returned and no item has arrived since, a
\* further run creates no StoryCluster and no StoryItemLink.
C1_SecondRunAddsNothing ==
    [][settled => TablesUnchanged]_vars

\* C1, amended: once a run has returned, no item has arrived since and no
\* unprocessed item with text is left over, a further run leaves the
\* StoryCluster and StoryItemLink tables as they are and returns
\* clustersCreated = 0 and itemsLinked = 0.
C1_Idempotent ==
    [][(settled /\ AllTextProcessed) =>
          /\ TablesUnchanged
          /\ \A r \in Runners :
                (pc'[r] = "return" /\ startUnprocessed'[r] = 0) =>
                    clustersCreated'[r] = 0 /\ itemsLinked'[r] = 0]_vars

\* A second run is about to return, after a first one that linked items.
C1_Witness ==
    /\ settled
    /\ AllTextProcessed
    /\ pc[1] = "return"
    /\ startUnprocessed[1] = 0
    /\ storyItemLinks # << >>

\* C2: there is at most one StoryItemLink for every (cluster, item) pair.
C2_AtMostOneLinkPerPair ==
    \A c \in 1..Len(storyClusters) : \A i \in 1..Len(rawItems) :
        Cardinality(LinksOf(c, i)) <= 1

\* A run found the link of the item it is at already there, left by an
\* earlier run, and goes on to mark the item without creating a link.
C2_Witness ==
    /\ pc[1] = "markProcessed"
    /\ \E l \in LinksOf(clusterId[1], CurItem(1)) : l <= startLinks[1]

\* C3: also when runs overlap, no two StoryItemLinks have the same
\* (cluster, item) pair.
C3_NoTwoLinksForAPair ==
    \A l1, l2 \in 1..Len(storyItemLinks) :
        l1 # l2 => storyItemLinks[l1] # storyItemLinks[l2]

ItemLinks(links, i) == {l \in 1..Len(links) : links[l].rawItemId = i}

\* C4: once a RawItem is processed it stays processed, no run that starts
\* later has it in its batch, and its links stay as they are.
C4_ProcessedOnceNeverAgain ==
    [][\A i \in 1..Len(rawItems) :
          rawItems[i].processed =>
             /\ rawItems'[i].processed
             /\ \A r \in Runners :
                   (pc[r] = "idle" /\ pc'[r] # "idle") => i \notin Range(unprocessedItems'[r])
             /\ ItemLinks(storyItemLinks', i) = ItemLinks(storyItemLinks, i)
             /\ \A l \in ItemLinks(storyItemLinks, i) :
                   storyItemLinks'[l] = storyItemLinks[l]]_vars

\* A run has just started with a batch, while an item of an earlier run is
\* processed.
C4_Witness ==
    /\ pc[1] = "findCluster"
    /\ gi[1] = 1
    /\ \E i \in 1..Len(rawItems) : rawItems[i].processed

\* C5: all RawItems linked to one StoryCluster have the same competitor key.
C5_ClusterPurity ==
    \A l1, l2 \in 1..Len(storyItemLinks) :
        storyItemLinks[l1].clusterId = storyItemLinks[l2].clusterId =>
            KeyOf(storyItemLinks[l1].rawItemId) = KeyOf(storyItemLinks[l2].rawItemId)

\* C6: no store operation having thrown, a run never creates a cluster for a
\* competitor key while a cluster that an earlier run used less than 24 hours
\* ago holds a processed item of that key.
C6_AccumulatesWithinWindow ==
    \A r \in Runners :
        (aborts = 0 /\ pc[r] = "createCluster") =>
            ~ \E l \in 1..Len(storyItemLinks) :
                 /\ rawItems[storyItemLinks[l].rawItemId].processed
                 /\ KeyOf(storyItemLinks[l].rawItemId) = CurGroup(r).key
                 /\ storyClusters[storyItemLinks[l].clusterId].updatedAt > clock - DayTicks

\* C7: when a run returns, every item of its batch is processed.
C7_BatchProcessedOnReturn ==
    \A r \in Runners :
        pc[r] = "return" =>
            \A i \in Range(unprocessedItems[r]) : rawItems[i].processed

\* A run returns after it found the link of one of its items already there.
C7_Witness ==
    /\ pc[1] = "return"
    /\ itemsLinked[1] < Len(unprocessedItems[1])

\* C8: when a run returns, every item of its batch, also one with competitor
\* key "unknown", is linked to a StoryCluster.
C8_BatchLinkedOnReturn ==
    \A r \in Runners :
        pc[r] = "return" =>
            \A i \in Range(unprocessedItems[r]) :
                \E l \in 1..Len(storyItemLinks) :
                    /\ storyItemLinks[l].rawItemId = i
                    /\ storyItemLinks[l].clusterId \in 1..Len(storyClusters)

\* A run returns with an item of key "unknown" in its batch.
C8_Witness ==
    /\ pc[1] = "return"
    /\ \E i \in Range(unprocessedItems[1]) : KeyOf(i) = Unknown

UnprocessedWithText ==
    Cardinality({i \in 1..Len(rawItems) : rawItems[i].hasText /\ ~rawItems[i].processed})

\* C9: a batch has at most BatchLimit items; a run that began with unprocessed
\* items with text returns with fewer of them; and, runs being repeated and
\* arrivals having stopped, every RawItem with text is eventually processed.
C9_BoundedBatchAndDrain ==
    /\ [](\A r \in Runners : Len(unprocessedItems[r]) <= BatchLimit)
    /\ [](\A r \in Runners :
            (pc[r] = "return" /\ startUnprocessed[r] > 0) =>
                UnprocessedWithText < startUnprocessed[r])
    /\ (~AllTextProcessed ~> AllTextProcessed)

\* A run returns that began with more unprocessed items than one batch holds.
C9_Witness ==
    /\ pc[1] = "return"
    /\ startUnprocessed[1] > BatchLimit
    /\ Len(unprocessedItems[1]) = BatchLimit

\* C10: when a run returns, clustersCreated is the number of StoryCluster rows
\* and itemsLinked the number of StoryItemLink rows added since it began.
C10_CountsAreEffects ==
    \A r \in Runners :
        pc[r] = "return" =>
            /\ clustersCreated[r] = Len(storyClusters) - startClusters[r]
            /\ itemsLinked[r] = Len(storyItemLinks) - startLinks[r]

\* A run returns that reused a cluster and linked an item to it.
C10_Witness ==
    /\ pc[1] = "return"
    /\ clustersCreated[1] = 0
    /\ itemsLinked[1] > 0

NoOfficialSource == \A i \in 1..Len(anItems) : anItems[i].trustTier # "HIGH"

\* C19: the verification status is VERIFIED when no AI capability was
\* detected; with one, it is VERIFIED exactly when an item has a HIGH trust
\* source or the items carry two distinct source names, CLAIM_UNVERIFIED
\* otherwise; and a further item under a second source name turns the
\* CLAIM_UNVERIFIED of LOW, single-source items into VERIFIED.
C19_VerificationStatus ==
    /\ [](anPc = "status" =>
            anStatus = IF \/ ~anHasAI
                          \/ ~NoOfficialSource
                          \/ \E i, j \in 1..Len(anItems) : anItems[i].name # anItems[j].name
                       THEN "VERIFIED"
                       ELSE "CLAIM_UNVERIFIED")
    /\ [][(/\ anPc = "status"
           /\ anHasAI
           /\ \A i \in 1..Len(anItems) : anItems[i].trustTier = "LOW"
           /\ \A i \in 1..Len(anItems) : anItems[i].name = anItems[1].name
           /\ Len(anItems') = Len(anItems) + 1
           /\ anItems'[Len(anItems')].trustTier = "LOW")
          => /\ anStatus = "CLAIM_UNVERIFIED"
             /\ anStatus' = IF anItems'[Len(anItems')].name # anItems[1].name
                            THEN "VERIFIED"
                            ELSE "CLAIM_UNVERIFIED"]_vars

C19_Witness ==
    /\ anPc = "status"
    /\ anHasAI
    /\ anStatus = "VERIFIED"
    /\ Len(anItems) >= 2
    /\ \A i \in 1..Len(anItems) : anItems[i].trustTier = "LOW"
    /\ \A i \in 1..(Len(anItems) - 1) : anItems[i].name = anItems[1].name

\* C20: whatever the items' trust tiers, their number and the status,
\* calculateConfidence returns an integer from 1 to 5; the largest raw
\* score, 6.5, comes out as 5.
C20_ConfidenceRange ==
    anPc \in {"scored", "called"} =>
        /\ anScore \in 1..5
        /\ (/\ TrustCount(anItems, "HIGH") >= 2
            /\ TrustCount(anItems, "MEDIUM") >= 2
            /\ anStatus = "VERIFIED")
           => anScore = 5

C20_Witness ==
    /\ anPc = "called"
    /\ TrustCount(anItems, "HIGH") >= 2
    /\ TrustCount(anItems, "MEDIUM") >= 2
    /\ anStatus = "VERIFIED"
    /\ RawScore(anItems, anStatus) = 13
    /\ anScore = 5

Terminal == {"COMPLETED", "FAILED"}

\* C14: a run's JobRunLog is created RUNNING; it is moved once, to COMPLETED
\* or to FAILED, by every run whose stages return or throw; a COMPLETED or
\* FAILED log is never changed again.
C14_JobLogLifecycle ==
    /\ [][/\ Len(jobRunLogs') >= Len(jobRunLogs)
          /\ \A id \in 1..Len(jobRunLogs') :
                IF id > Len(jobRunLogs)
                THEN jobRunLogs'[id].status = "RUNNING"
                ELSE \/ jobRunLogs'[id] = jobRunLogs[id]
                     \/ /\ jobRunLogs[id].status = "RUNNING"
                        /\ jobRunLogs'[id].status \in Terminal]_vars
    /\ \A id \in 1..MaxRuns :
          (Len(jobRunLogs) >= id)
             ~> (Len(jobRunLogs) >= id /\ jobRunLogs[id].status \in Terminal)

C14_Witness ==
    /\ Len(jobRunLogs) = 2
    /\ jobRunLogs[1].status = "COMPLETED"
    /\ jobRunLogs[2].status = "FAILED"
    /\ runs[1].at = "done"
    /\ runs[2].at = "done"

\* C15: a full_pipeline run calls fetch_sources, normalize,
\* dedupe_and_cluster, summarize_and_analyze, alerts in this order, each
\* after the one before it has returned; once a stage has thrown no further
\* stage is called and the run's log ends FAILED.
C15_StagesInOrder ==
    /\ [](\A id \in 1..Len(runs) :
            runs[id].jobName = "full_pipeline" =>
               /\ runs[id].entered = SubSeq(StageNames, 1, Len(runs[id].entered))
               /\ runs[id].error = "none" /\ runs[id].at = "try"
                     => Len(runs[id].results) = Len(runs[id].entered)
               /\ runs[id].error # "none"
                     => /\ runs[id].at \in {"catch", "done"}
                        /\ Len(runs[id].results) = Len(runs[id].entered) - 1
               /\ runs[id].at = "done"
                     => jobRunLogs[id].status =
                           IF runs[id].error # "none" THEN "FAILED" ELSE "COMPLETED"
               /\ jobRunLogs[id].status = "COMPLETED" => runs[id].entered = StageNames)
    /\ [][\A id \in 1..Len(runs) :
             runs[id].error # "none" => runs'[id].entered = runs[id].entered]_vars

C15_Witness ==
    \E id \in 1..Len(runs) :
       /\ runs[id].jobName = "full_pipeline"
       /\ runs[id].at = "done"
       /\ runs[id].entered = SubSeq(StageNames, 1, 3)
       /\ jobRunLogs[id].status = "FAILED"

\* C16: when a stage of a run has thrown, single job or full_pipeline, the
\* run's log ends FAILED with itemsProcessed 0 and the error's message,
\* whatever the stages before it returned, and the runner throws that error.
C16_FailureDropsCounts ==
    \A id \in 1..Len(runs) :
       runs[id].at = "done" /\ runs[id].error # "none" =>
          /\ jobRunLogs[id].status = "FAILED"
          /\ jobRunLogs[id].itemsProcessed = 0
          /\ jobRunLogs[id].errorMessage = runs[id].error
          /\ runs[id].thrown = runs[id].error

C16_Witness ==
    \E id \in 1..Len(runs) :
       /\ runs[id].at = "done"
       /\ runs[id].error = "store"
       /\ Len(runs[id].results) = 2
       /\ runs[id].results[1].itemsFetched = 1
       /\ runs[id].results[2].itemsProcessed = 1
       /\ jobRunLogs[id].status = "FAILED"
       /\ jobRunLogs[id].itemsProcessed = 0
       /\ runs[id].thrown = "store"

\* C17 as stated: a full_pipeline run under a malformed competitor or source
\* configuration fails before any stage has executed, with nothing written.
C17_ConfigErrorBeforeStages ==
    \A id \in 1..Len(runs) :
       (/\ runs[id].jobName = "full_pipeline"
        /\ runs[id].at = "done"
        /\ ~(sourcesOk /\ competitorsOk))
       => /\ jobRunLogs[id].status = "FAILED"
          /\ runs[id].results = << >>
          /\ runs[id].wrote
               \cap {"RawItem", "StoryCluster", "StoryItemLink", "StorySummary",
                     "Notification"} = {}

\* C11: no cluster has two StorySummary rows, and a StorySummary row, once
\* created, stays as it is whatever summarizeAndAnalyzeJob and
\* dedupeAndClusterJob runs follow, also when the cluster gets more items.
C11_OneSummaryNeverChanged ==
    /\ [](\A i, j \in 1..Len(storySummaries) :
            storySummaries[i].clusterId = storySummaries[j].clusterId => i = j)
    /\ [][/\ Len(storySummaries') >= Len(storySummaries)
          /\ \A i \in 1..Len(storySummaries) : storySummaries'[i] = storySummaries[i]]_vars

C11_Witness ==
    /\ sumPc = "return"
    /\ summariesCreated = 0
    /\ \E k \in 1..Len(storySummaries) :
          /\ Len(storySummaries[k].citations) = 1
          /\ Cardinality({l \in 1..Len(storyItemLinks) :
                 storyItemLinks[l].clusterId = storySummaries[k].clusterId}) = 2

\* C18: summarizeAndAnalyzeJob creates no summary for a cluster without
\* linked items, does not count it, and goes on: when the run returns, the
\* clusters of its batch that had items have a summary each, the others
\* have none, and summariesCreated is the number of the former.
C18_EmptyClusterSkipped ==
    /\ \A k \in 1..Len(storySummaries) : storySummaries[k].citations # << >>
    /\ sumPc = "return" =>
          LET rows == clustersWithoutSummaries
              withItems == {j \in 1..Len(rows) : rows[j].items # << >>}
              summarised(j) ==
                  \E k \in 1..Len(storySummaries) : storySummaries[k].clusterId = rows[j].id
          IN  /\ summariesCreated = Cardinality(withItems)
              /\ \A j \in 1..Len(rows) : summarised(j) <=> j \in withItems

C18_Witness ==
    /\ sumPc = "return"
    /\ Len(clustersWithoutSummaries) = 2
    /\ clustersWithoutSummaries[1].items = << >>
    /\ clustersWithoutSummaries[2].items # << >>
    /\ summariesCreated = 1
    /\ \E k \in 1..Len(storySummaries) :
          storySummaries[k].clusterId = clustersWithoutSummaries[2].id

NotificationsFor(userId, storyId) ==
    {n \in 1..Len(notifications) :
        notifications[n].userId = userId /\ notifications[n].storyId = storyId}

\* C12: there are never two Notification rows for one user and one
\* summary, whatever runs of alertsJob have taken place, also when two
\* active rules of the user match the summary and when a later run sees the
\* summary again.
C12_OneNotificationPerPair ==
    \A u \in Users : \A s \in 1..Len(storySummaries) :
       Cardinality(NotificationsFor(u, s)) <= 1

C12_Witness ==
    /\ alPc = "return"
    /\ alertedUpTo >= 1
    /\ 1 \in Range(recentSummaries)
    /\ Len(alerts) = 2
    /\ userAlerts[1].userId = userAlerts[2].userId
    /\ Matches(userAlerts[1], storySummaries[1])
    /\ Matches(userAlerts[2], storySummaries[1])
    /\ Cardinality(NotificationsFor(userAlerts[1].userId, 1)) = 1

\* The rule matches the summary, in the words of the claim.
C13_RuleMatches(rule, summary) ==
    /\ rule.verticals = {} \/ summary.verticalId \in rule.verticals
    /\ rule.competitors = {} \/ summary.competitorId \in rule.competitors
    /\ \/ summary.priority = "P0"
       \/ summary.priority = "P1" /\ rule.minPriority # "P0"
    /\ \/ rule.aiCapabilities = {}
       \/ \E c \in summary.aiCapabilities : c \in rule.aiCapabilities

\* C13 as stated: when a run of alertsJob returns, for every summary that
\* no earlier run has handled and every active rule, the rule's user has a
\* Notification for the summary exactly when the rule or another active rule
\* of that user matches the summary.
C13_NotifiedIffMatched ==
    alPc = "return" =>
       \A s \in (alertedUpTo + 1)..alStart : \A a \in 1..Len(userAlerts) :
          userAlerts[a].isActive =>
             (NotificationsFor(userAlerts[a].userId, s) # {}
                <=> \E b \in 1..Len(userAlerts) :
                       /\ userAlerts[b].isActive
                       /\ userAlerts[b].userId = userAlerts[a].userId
                       /\ C13_RuleMatches(userAlerts[b], storySummaries[s]))

\* The text has been analysed by analyzeCluster, or detectPriority has been
\* called on it.
PriorityDetected == txPc \in {"analyzed", "called"}

\* C21: detectPriority tests four cases in this order: a P0 pattern matches
\* the text (P0, also when a P1 pattern matches too), a P1 pattern matches
\* (P1), AI_VOICE_AGENT is among the capabilities (P1), none of these (P2);
\* nothing else enters the result.
C21_PriorityCascade ==
    PriorityDetected =>
       LET p0 == \E k \in 1..Len(P0_PATTERNS) : test(P0_PATTERNS[k], txText)
           p1 == \E k \in 1..Len(P1_PATTERNS) : test(P1_PATTERNS[k], txText)
           voice == \E i \in 1..Len(txCapabilities) :
                       txCapabilities[i] = "AI_VOICE_AGENT"
       IN  /\ p0 => txPriority = "P0"
           /\ ~p0 /\ p1 => txPriority = "P1"
           /\ ~p0 /\ ~p1 /\ voice => txPriority = "P1"
           /\ ~p0 /\ ~p1 /\ ~voice => txPriority = "P2"

\* A text that a P0 pattern and a P1 pattern both match came out P0.
C21_Witness ==
    /\ PriorityDetected
    /\ \E k \in 1..Len(P0_PATTERNS) : test(P0_PATTERNS[k], txText)
    /\ \E k \in 1..Len(P1_PATTERNS) : test(P1_PATTERNS[k], txText)
    /\ txPriority = "P0"

\* The tags of the table that have a pattern matching the text.
TagsMatching(text) ==
    {AI_CAPABILITY_PATTERNS[e].capability :
       e \in {d \in 1..Len(AI_CAPABILITY_PATTERNS) :
                \E k \in 1..Len(AI_CAPABILITY_PATTERNS[d].patterns) :
                   test(AI_CAPABILITY_PATTERNS[d].patterns[k], text)}}

\* The word "ai", in any case, is one of the words of the text.
HasWordAI(text) == \E i \in 1..Len(text) : text[i] \in {"ai", "AI", "Ai", "aI"}

\* C22: detectAICapabilities returns, without duplicates, exactly the tags
\* that have a pattern matching the text; when no tag has one, it returns
\* AI_WORKFLOW_AUTOMATION alone if the text holds the word "ai", nothing if
\* it does not.
C22_CapabilitiesDetected ==
    txPc = "analyzed" =>
       /\ \A i, j \in 1..Len(txCapabilities) :
             i # j => txCapabilities[i] # txCapabilities[j]
       /\ TagsMatching(txText) # {} =>
             Range(txCapabilities) = TagsMatching(txText)
       /\ TagsMatching(txText) = {} /\ HasWordAI(txText) =>
             txCapabilities = <<"AI_WORKFLOW_AUTOMATION">>
       /\ TagsMatching(txText) = {} /\ ~HasWordAI(txText) =>
             txCapabilities = << >>

\* A text matched by patterns of two tags came out with both.
C22_Witness ==
    /\ txPc = "analyzed"
    /\ Cardinality(TagsMatching(txText)) = 2
    /\ Len(txCapabilities) = 2

\* The configured competitors whose name occurs in the text, whatever the case.
NamedIn(text) ==
    {c \in 1..Len(competitors) :
       includes(toLowerCase(text), toLowerCase(competitors[c].name))}

\* The configured competitors whose name or one of whose keywords occurs.
MentionedIn(text) ==
    NamedIn(text) \cup
    {c \in 1..Len(competitors) :
       \E k \in 1..Len(competitors[c].keywords) :
          includes(toLowerCase(text), toLowerCase(competitors[c].keywords[k]))}

\* C23, as stated: a text that holds the name of a configured competitor
\* yields that competitor, the one listed first when it holds several names,
\* and a text that holds no name and no keyword yields null.
C23_NamedCompetitorReturned ==
    txPc = "analyzed" =>
       /\ NamedIn(txText) # {} => txCompetitor = Min(NamedIn(txText))
       /\ MentionedIn(txText) = {} => txCompetitor = 0

\* C23, amended: a text that holds the name of a configured competitor
\* yields that competitor unless the name or a keyword of a competitor listed
\* before it occurs too, and then the first listed of these is returned; a
\* text that holds no name and no keyword yields null.
C23_FirstListedWins ==
    txPc = "analyzed" =>
       /\ \A c \in NamedIn(txText) :
             IF \E d \in MentionedIn(txText) : d < c
             THEN txCompetitor = Min(MentionedIn(txText))
             ELSE txCompetitor = c
       /\ MentionedIn(txText) = {} => txCompetitor = 0

\* A text that holds the name of the second competitor and a keyword of the
\* first came out as the first competitor.
C23_Witness ==
    /\ txPc = "analyzed"
    /\ NamedIn(txText) = {2}
    /\ 1 \in MentionedIn(txText)
    /\ txCompetitor = 1

\* C28: in every result of analyzeCluster, AI_VOICE_AGENT among the
\* capabilities means priority P0 or P1; the recommended actions are never
\* empty, and the fallback action is among them exactly when the priority is
\* P2, where it is the only action.
C28_VoiceExcludesP2 ==
    txPc = "analyzed" =>
       LET fallback == "Continue monitoring for developments"
       IN  /\ (\E i \in 1..Len(txCapabilities) :
                  txCapabilities[i] = "AI_VOICE_AGENT")
                 => txPriority \in {"P0", "P1"}
           /\ txActions # << >>
           /\ (\E i \in 1..Len(txActions) : txActions[i] = fallback)
                 <=> txPriority = "P2"
           /\ txPriority = "P2" => txActions = <<fallback>>

\* A text with the voice capability and no word of a priority pattern came
\* out P1, with the voice action after the two P1 actions.
C28_Witness ==
    /\ txPc = "analyzed"
    /\ \E i \in 1..Len(txCapabilities) : txCapabilities[i] = "AI_VOICE_AGENT"
    /\ ~ \E k \in 1..Len(P0_PATTERNS) : test(P0_PATTERNS[k], txText)
    /\ ~ \E k \in 1..Len(P1_PATTERNS) : test(P1_PATTERNS[k], txText)
    /\ txPriority = "P1"
    /\ Len(txActions) = 3
    /\ txActions[3] = "Benchmark voice AI capabilities"

\* The clusters whose title holds the key and that were created in the 24
\* hours before now.
TitledAndCreatedWithinDay(key) ==
    {c \in 1..Len(storyClusters) :
        /\ includes(storyClusters[c].canonicalTitle, key)
        /\ clock - storyClusters[c].createdAt <= DayTicks}

\* C24: for each group of a batch dedupeAndClusterJob resolves one target
\* cluster: a cluster whose title holds the competitor key and that was
\* created in the last 24 hours is reused when there is one (its updatedAt
\* becomes now, no cluster is created), otherwise one cluster is created; the
\* links of the group go to that cluster, so that no cluster created more
\* than 24 hours before the run began receives a link from the run.
C24_ClusterResolution ==
    [][\A r \in Runners :
          /\ (pc[r] = "findCluster" /\ pc'[r] \notin {"findCluster", "idle"}) =>
                /\ storyClusters' = storyClusters
                /\ IF TitledAndCreatedWithinDay(competitorGroups[r][gi[r]].key) # {}
                   THEN /\ pc'[r] = "updateCluster"
                        /\ clusterId'[r] \in
                              TitledAndCreatedWithinDay(competitorGroups[r][gi[r]].key)
                   ELSE pc'[r] = "createCluster"
          /\ (pc[r] = "updateCluster" /\ pc'[r] = "findLink") =>
                /\ storyClusters' =
                      [storyClusters EXCEPT ![clusterId[r]].updatedAt = clock]
                /\ clusterId'[r] = clusterId[r]
                /\ clustersCreated'[r] = clustersCreated[r]
          /\ (pc[r] = "createCluster" /\ pc'[r] = "findLink") =>
                /\ Len(storyClusters') = Len(storyClusters) + 1
                /\ SubSeq(storyClusters', 1, Len(storyClusters)) = storyClusters
                /\ clusterId'[r] = Len(storyClusters) + 1
                /\ clustersCreated'[r] = clustersCreated[r] + 1
          /\ (pc[r] \in {"findLink", "createLink", "markProcessed"}
                 /\ pc'[r] # "idle") =>
                /\ clusterId'[r] = clusterId[r]
                /\ Len(storyClusters') = Len(storyClusters)
          /\ (pc[r] = "createLink" /\ pc'[r] = "markProcessed") =>
                /\ storyItemLinks' =
                      Append(storyItemLinks,
                             [clusterId |-> clusterId[r],
                              rawItemId |-> competitorGroups[r][gi[r]].items[ii[r]]])
                /\ startClock[r] - storyClusters[clusterId[r]].createdAt <= DayTicks]_vars

\* A run has just created a cluster for a group although a cluster with the
\* key in its title was updated in the last 24 hours: that one was created
\* more than 24 hours ago.
C24_Witness ==
    /\ pc[1] = "findLink"
    /\ clusterId[1] = Len(storyClusters)
    /\ storyClusters[clusterId[1]].createdAt = clock
    /\ \E c \in 1..Len(storyClusters) :
          /\ includes(storyClusters[c].canonicalTitle, competitorGroups[1][gi[1]].key)
          /\ clock - storyClusters[c].createdAt > DayTicks
          /\ clock - storyClusters[c].updatedAt <= DayTicks

\* The clusters a RawItem is linked to.
ClustersOfItem(i) ==
    {storyItemLinks[l].clusterId :
       l \in {k \in 1..Len(storyItemLinks) : storyItemLinks[k].rawItemId = i}}

\* C25: whatever runs of dedupeAndClusterJob have taken place, aborted ones
\* among them, every RawItem is linked to at most one StoryCluster.
C25_ItemInOneCluster ==
    \A i \in 1..Len(rawItems) : Cardinality(ClustersOfItem(i)) <= 1

\* The StoryCluster rows there can ever be: one per item, one per abort.
ClusterIds == 1..(MaxItems + SummaryBatchLimit)

\* C26: with summarizeAndAnalyzeJob invoked again and again and never
\* failing, every StoryCluster that has a linked item eventually has a
\* StorySummary, clusters without links among the summary-less ones or not.
C26_EveryClusterSummarised ==
    \A c \in ClusterIds :
       (c <= Len(storyClusters) /\ ItemsOfCluster(c) # << >>)
          ~> (\E k \in 1..Len(storySummaries) : storySummaries[k].clusterId = c)

\* C27: the raw score of calculateConfidence is never below 2.5, which
\* Math.round takes to 3, so every score is 3, 4 or 5, those of
\* analyzeCluster included, and it is at least 4 when the status is VERIFIED.
C27_ConfidenceAtLeastThree ==
    anPc \in {"scored", "called"} =>
        /\ RawScore(anItems, anStatus) >= 5
        /\ anScore \in {3, 4, 5}
        /\ anStatus = "VERIFIED" => anScore >= 4

\* analyzeCluster scored an unverified claim at the smallest raw score, 2.5,
\* which came out as 3.
C27_Witness ==
    /\ anPc = "scored"
    /\ anStatus = "CLAIM_UNVERIFIED"
    /\ RawScore(anItems, anStatus) = 5
    /\ anScore = 3

\* The five stages of the pipeline, in order.
FiveStages ==
    <<"fetch_sources", "normalize", "dedupe_and_cluster", "summarize_and_analyze",
      "alerts">>

\* C29: a full_pipeline run, whether made by runAllJobs, by runJobAsync or by
\* processJob, awaits the same five stages in the same order and leaves a
\* log named full_pipeline that is COMPLETED with itemsFetched +
\* itemsProcessed + itemsLinked + summariesCreated + alertsSent when the
\* stages return, FAILED with 0 when one throws.
C29_SamePipeline ==
    [][\A id \in 1..Len(runs) :
          runs[id].jobName = "full_pipeline" =>
             /\ runs'[id].entered = SubSeq(FiveStages, 1, Len(runs'[id].entered))
             /\ jobRunLogs'[id].jobName = "full_pipeline"
             /\ (runs[id].at = "try" /\ runs'[id].at = "done") =>
                   /\ runs[id].entered = FiveStages
                   /\ jobRunLogs'[id].status = "COMPLETED"
                   /\ jobRunLogs'[id].itemsProcessed =
                         runs[id].results[1].itemsFetched
                         + runs[id].results[2].itemsProcessed
                         + runs[id].results[3].itemsLinked
                         + runs[id].results[4].summariesCreated
                         + runs[id].results[5].alertsSent
             /\ (runs[id].at = "catch" /\ runs'[id].at = "done") =>
                   /\ jobRunLogs'[id].status = "FAILED"
                   /\ jobRunLogs'[id].itemsProcessed = 0
             /\ runs[id].at # "done" => jobRunLogs[id].status = "RUNNING"]_vars

\* runAllJobs and processJob have each completed a full_pipeline run whose
\* stages created a cluster and counted 5 items in all: the two logs are
\* the same.
C29_Witness ==
    /\ Len(runs) = 2
    /\ runs[1].caller = "runAllJobs"
    /\ runs[2].caller = "processJob"
    /\ runs[2].jobName = "full_pipeline"
    /\ runs[1].at = "done" /\ runs[2].at = "done"
    /\ runs[2].wrote = runs[1].wrote
    /\ "StoryCluster" \in runs[2].wrote
    /\ jobRunLogs[1].status = "COMPLETED"
    /\ jobRunLogs[1].itemsProcessed = 5
    /\ jobRunLogs[2] = jobRunLogs[1]

\* C30: a run of runJobAsync under a name that is none of the six job names
\* awaits no stage and writes nothing but its log, which carries that name
\* and goes from RUNNING to COMPLETED with itemsProcessed 0, never FAILED.
C30_UnknownJobName ==
    \A id \in 1..Len(runs) :
       (runs[id].caller = "runJobAsync" /\ runs[id].jobName = "other") =>
          /\ runs[id].entered = << >>
          /\ runs[id].wrote = {}
          /\ runs[id].at \in {"try", "done"}
          /\ jobRunLogs[id].jobName = "other"
          /\ jobRunLogs[id] =
                [jobName |-> "other",
                 status |-> IF runs[id].at = "done" THEN "COMPLETED" ELSE "RUNNING",
                 itemsProcessed |-> 0,
                 errorMessage |-> "none"]

\* Such a run is over.
C30_Witness ==
    \E id \in 1..Len(runs) :
       /\ runs[id].caller = "runJobAsync"
       /\ runs[id].jobName = "other"
       /\ runs[id].at = "done"
       /\ jobRunLogs[id].status = "COMPLETED"

====
